---------------------------- MODULE Spec2Model ----------------------------
(***************************************************************************)
(* A model of evaluate_drivers.py: the per-driver evaluator                *)
(* (evaluate_*_driver), the functional test (functional_test_driver) and   *)
(* the weighted scoring.                                                   *)
(*                                                                         *)
(* Representation.  Python floats of the scoring are exact decimals here:  *)
(* a sub-criterion or a weight is an integer number of thousandths         *)
(* (1.0 is 1000, a penalty of 0.005 is 5), a running sum is a rational     *)
(* [n, d], and overall_score is an integer number of hundredths (92.5 is   *)
(* 9250).  Binary rounding error of the floats is not modelled.            *)
(* A text that the code only searches with regular expressions (compiler   *)
(* output, checkpatch output, clang-tidy output, dmesg) is modelled by the *)
(* lines of it that the expressions can match.                             *)
(***************************************************************************)
EXTENDS Integers, Sequences, FiniteSets, TLC

-----------------------------------------------------------------------------
(* Bounds of the model *)

\* largest count of compile errors, compile warnings, style errors and
\* style warnings an external tool reports in the step-by-step model
MaxCount == 1

\* largest number of finding lines in a clang-tidy output of the
\* step-by-step model
MaxFindings == 1

\* a small count of findings that leaves every penalised sub-criterion
\* above its floor, in the scoring model
FewIssues == 3

\* a count of findings large enough to push every penalised sub-criterion
\* below zero before clamping (201 * 0.005 > 1.0), in the scoring model
ManyIssues == 201

-----------------------------------------------------------------------------
(* Exact arithmetic *)

RECURSIVE GCD(_, _)
GCD(a, b) == IF b = 0 THEN a ELSE GCD(b, a % b)

Abs(x) == IF x < 0 THEN -x ELSE x

\* the rational n/d in lowest terms, d > 0
Rat(n, d) ==
    LET g == GCD(Abs(n), d)
    IN  IF n = 0 THEN [n |-> 0, d |-> 1] ELSE [n |-> n \div g, d |-> d \div g]

RatAdd(p, q) == Rat(p.n * q.d + q.n * p.d, p.d * q.d)

\* n/d rounded to the nearest integer, ties to even, as round() does
RoundHalfEven(n, d) ==
    LET q == n \div d
        r == n % d
    IN  IF 2 * r < d THEN q
        ELSE IF 2 * r > d THEN q + 1
        ELSE IF q % 2 = 0 THEN q ELSE q + 1

Max(a, b) == IF a >= b THEN a ELSE b

RECURSIVE SumOver(_, _)
\* the sum of f[x] over the finite set S
SumOver(f, S) ==
    IF S = {} THEN 0
    ELSE LET x == CHOOSE y \in S : TRUE IN f[x] + SumOver(f, S \ {x})

-----------------------------------------------------------------------------
(* The scenario registry and the five evaluators *)

SCENARIO_MAP ==
    << [tag |-> "char_rw", filename |-> "char_rw.c",
        category |-> "char_device_basic_rw"],
       [tag |-> "char_ioctl_sync", filename |-> "char_ioctl_sync.c",
        category |-> "char_device_ioctl_sync"],
       [tag |-> "platform_gpio_irq", filename |-> "platform_gpio_irq.c",
        category |-> "platform_device_gpio_irq"],
       [tag |-> "char_procfs", filename |-> "char_procfs.c",
        category |-> "char_device_procfs"],
       [tag |-> "hello_module", filename |-> "hello_module.c",
        category |-> "generic_kernel_module"] >>

\* os.path.splitext(driver_filename)[0] of the registry's filenames
driver_name_stem(k) == SCENARIO_MAP[k].tag

\* the expected_load_msg each evaluate_*_driver passes to the functional test
expected_load_msg(k) ==
    CASE k = 1 -> "char_rw: device registered"
      [] k = 2 -> "char_ioctl_sync: device registered"
      [] k = 3 -> "platform_gpio_irq: platform driver loaded"
      [] k = 4 -> "char_procfs: procfs entry created"
      [] k = 5 -> "hello_module: Hello World!"

\* the expected_unload_msg each evaluate_*_driver passes to the functional test
expected_unload_msg(k) ==
    CASE k = 1 -> "char_rw: device unregistered"
      [] k = 2 -> "char_ioctl_sync: device unregistered"
      [] k = 3 -> "platform_gpio_irq: platform driver unloaded"
      [] k = 4 -> "char_procfs: procfs entry removed"
      [] k = 5 -> "hello_module: Goodbye, World!"

\* truth value of a Python string: the empty string (or None) is false
Given(msg) == msg # ""

-----------------------------------------------------------------------------
(* run_command and the texts the tools print *)

\* exit codes run_command returns: -1 when the command is not found (or the
\* call raises), 0 on success, 1 for any failure of the tool
CommandNotFound == -1

ReturnCodes == {CommandNotFound, 0, 1}

\* one entry of the command log: the argv and the description given to
\* run_command
Cmd(argv, description) == [argv |-> argv, description |-> description]

\* kinds of line of a clang-tidy output, each named by the text in it that
\* the expressions of the evaluator search for
ClangTidyLines ==
    { "f.c:1:1: warning: unused",
      "f.c:1:1: warning: linuxkernel-must-check-errs:",
      "f.c:1:1: warning: clang-analyzer-security.insecureAPI.memcpy",
      "f.c:1:1: warning: resource leak",
      "f.c:1:1: warning: race condition",
      "f.c:1:1: warning: return value ignored" }

\* a clang-tidy output: how many lines of each kind it holds
NoOutput == [l \in ClangTidyLines |-> 0]

\* len(re.findall(pattern, output)) for a pattern that matches once in each
\* line of the kinds in `matching`
FindAll(matching, output) == SumOver(output, matching \cap DOMAIN output)

\* r'^\s*\S+:\d+:\d+:\s*(warning|error):'
DiagnosticLines == ClangTidyLines

\* r'linuxkernel-.*:'
ApiMisuseLines == { "f.c:1:1: warning: linuxkernel-must-check-errs:" }

\* r'bugprone-(null-dereference|use-after-free|double-free)|
\*   clang-analyzer-security.insecureAPI\.memcpy|memory leak'
MemSafetyLines ==
    { "f.c:1:1: warning: clang-analyzer-security.insecureAPI.memcpy" }

\* r'resource leak|unhandled return value'
ResourceMgmtLines == { "f.c:1:1: warning: resource leak" }

\* r'concurrency-.*|race condition'
RaceCondLines == { "f.c:1:1: warning: race condition" }

\* r'clang-analyzer-security.insecureAPI|buffer-overflow|bounds check'
InputValLines ==
    { "f.c:1:1: warning: clang-analyzer-security.insecureAPI.memcpy" }

\* r'error handling|return value ignored'
ErrorHandlingLines == { "f.c:1:1: warning: return value ignored" }

-----------------------------------------------------------------------------
(* Step 6.5: the detailed and the overall score *)

\* 1.0, in thousandths
One == 1000

ApiMisusePenalty == 50
MemSafetyPenalty == 50
ResourceMgmtPenalty == 50
RaceCondPenalty == 50
InputValPenalty == 50
StyleErrorPenalty == 10
StyleWarningPenalty == 5
CompileWarningPenalty == 5
ErrorHandlingPenalty == 20

\* detailed_metrics as first assigned: weights and defaults
detailed_metrics ==
    [ correctness |->
        [weight |-> 400, compilation_success |-> 0, functionality_pass |-> 0,
         kernel_api_usage |-> 1000],
      security_safety |->
        [weight |-> 250, memory_safety |-> 1000, resource_management |-> 1000,
         race_conditions |-> 1000, input_validation |-> 1000],
      code_quality |->
        [weight |-> 200, style_compliance |-> 1000, error_handling |-> 1000,
         documentation |-> 700, maintainability |-> 800],
      performance |->
        [weight |-> 100, efficiency |-> 750, scalability |-> 600,
         memory_usage |-> 750],
      advanced_features |->
        [weight |-> 50, power_management |-> 500, device_tree_support |-> 400,
         debug_support |-> 900] ]

\* the subtraction without the 0.0 floor
Penalised_Unclamped(issues, penalty) == One - issues * penalty

\* max(0.0, 1.0 - issues * penalty)
Penalised(issues, penalty) == Max(0, One - issues * penalty)

kernel_api_usage(output) ==
    Penalised(FindAll(ApiMisuseLines, output), ApiMisusePenalty)

memory_safety(output) ==
    Penalised(FindAll(MemSafetyLines, output), MemSafetyPenalty)

resource_management(output) ==
    Penalised(FindAll(ResourceMgmtLines, output), ResourceMgmtPenalty)

race_conditions(output) ==
    Penalised(FindAll(RaceCondLines, output), RaceCondPenalty)

input_validation(output) ==
    Penalised(FindAll(InputValLines, output), InputValPenalty)

\* the style warnings added instead of subtracted
style_compliance_WarningsAdded(checkpatch_ok, style) ==
    LET style_compliance_score ==
            IF checkpatch_ok
            THEN One - style.errors_count * StyleErrorPenalty
                     + style.warnings_count * StyleWarningPenalty
            ELSE One
    IN  Max(0, style_compliance_score)

\* style counts are subtracted only when checkpatch.pl is usable
style_compliance(checkpatch_ok, style) ==
    LET style_compliance_score ==
            IF checkpatch_ok
            THEN One - style.errors_count * StyleErrorPenalty
                     - style.warnings_count * StyleWarningPenalty
            ELSE One
    IN  Max(0, style_compliance_score)

error_handling(warnings_count, output) ==
    LET error_handling_score ==
            One - warnings_count * CompileWarningPenalty
                - FindAll(ErrorHandlingLines, output) * ErrorHandlingPenalty
    IN  Max(0, error_handling_score)

\* detailed_metrics after the "Populate ... Scores" assignments
PopulateScores(m, checkpatch_ok) ==
    LET out == m.static_analysis.output
    IN  [ detailed_metrics EXCEPT
            !.correctness.compilation_success =
                IF m.compilation.success THEN One ELSE 0,
            !.correctness.functionality_pass =
                IF m.functionality.test_passed THEN One ELSE 0,
            !.correctness.kernel_api_usage = kernel_api_usage(out),
            !.security_safety.memory_safety = memory_safety(out),
            !.security_safety.resource_management = resource_management(out),
            !.security_safety.race_conditions = race_conditions(out),
            !.security_safety.input_validation = input_validation(out),
            !.code_quality.style_compliance =
                style_compliance(checkpatch_ok, m.style),
            !.code_quality.error_handling =
                error_handling(m.compilation.warnings_count, out) ]

\* the inner loop without its `sub_criteria != 'weight'` test
SubCriteria_WithWeight(category_data) == DOMAIN category_data

\* the keys of a category that the inner loop adds up
SubCriteria(category_data) == DOMAIN category_data \ {"weight"}

\* (category_sub_score_sum / sub_criteria_count) * weight, in millionths
CategoryTerm(category_data) ==
    LET keys == SubCriteria(category_data)
        category_sub_score_sum == SumOver(category_data, keys)
        sub_criteria_count == Cardinality(keys)
    IN  IF sub_criteria_count > 0
        THEN Rat(category_sub_score_sum * category_data.weight,
                 sub_criteria_count)
        ELSE Rat(0, 1)

RECURSIVE SumTerms(_, _)
\* overall_score_sum over the categories in `names`, in millionths
SumTerms(detailed, names) ==
    IF names = {} THEN Rat(0, 1)
    ELSE LET c == CHOOSE x \in names : TRUE
         IN  RatAdd(CategoryTerm(detailed[c]), SumTerms(detailed, names \ {c}))

\* the mean of the correctness sub-criteria taken for the whole score
overall_score_CorrectnessOnly(detailed) ==
    LET keys == SubCriteria(detailed.correctness)
    IN  RoundHalfEven(10 * SumOver(detailed.correctness, keys),
                      Cardinality(keys))

\* round(overall_score_sum * 100, 2), in hundredths
overall_score(detailed) ==
    LET overall_score_sum == SumTerms(detailed, DOMAIN detailed)
    IN  RoundHalfEven(overall_score_sum.n, overall_score_sum.d * 100)

\* the metrics record after step 6.5
CalculateScores(m, checkpatch_ok) ==
    LET detailed == PopulateScores(m, checkpatch_ok)
        score == overall_score(detailed)
    IN  [detailed_scores |-> detailed @@ [overall_score |-> score]]
            @@ [m EXCEPT !.overall_score = score]

-----------------------------------------------------------------------------
(* Step 6.1: what the compilation assessment records *)

\* success decided without looking for the .ko
compilation_success_WithoutKo(final_make_return_code, compile_errors, ko_exists) ==
    /\ final_make_return_code = 0
    /\ compile_errors = 0

\* final_make_return_code == 0 and compile_errors == 0 and the .ko exists
compilation_success(final_make_return_code, compile_errors, ko_exists) ==
    /\ final_make_return_code = 0
    /\ compile_errors = 0
    /\ ko_exists

\* metrics["compilation"] after the build command has returned
AssessCompilation(m, final_make_return_code, compile_errors, compile_warnings, ko_exists) ==
    [ m EXCEPT !.compilation =
        [ success |-> compilation_success(final_make_return_code,
                                          compile_errors, ko_exists),
          errors_count |-> compile_errors,
          warnings_count |-> compile_warnings ] ]

\* what a build command that ran can leave behind: counts of error and
\* warning lines in its output and whether the .ko is on disk
BuildOutcomes ==
    [ errors : 0..MaxCount, warnings : 0..MaxCount, ko : BOOLEAN ]

\* a build command that was not found, its message counted as an error
NotBuilt_ErrorLine == [ errors |-> 1, warnings |-> 0, ko |-> FALSE ]

\* a build command that was not found prints nothing and builds nothing
NotBuilt == [ errors |-> 0, warnings |-> 0, ko |-> FALSE ]

-----------------------------------------------------------------------------
(* The kernel log as the functional test searches it *)

LoadLogLines(k) ==
    { "Unknown symbol in module", "kernel BUG: soft lockup",
      expected_load_msg(k) }

UnloadLogLines(k) ==
    { "rmmod: ERROR: Module is in use", "kernel BUG: soft lockup",
      expected_unload_msg(k) }

\* lines matched by one of failure_indicators (case-insensitive)
failure_detected(dmesg_after_load) ==
    dmesg_after_load \cap { "Unknown symbol in module" } # {}

\* re.search(r'kernel (panic|oops|bug):', log, re.IGNORECASE)
oops_in(log) ==
    log \cap { "kernel BUG: soft lockup" } # {}

\* re.search(r'rmmod: ERROR:|fail|error|Device or resource busy', log)
unload_problem(dmesg_after_unload) ==
    dmesg_after_unload \cap { "rmmod: ERROR: Module is in use" } # {}

\* re.search(re.escape(msg), log, re.IGNORECASE)
msg_found(msg, log) == msg \in log

\* the results dict functional_test_driver starts from
InitialResults ==
    [ load_success |-> FALSE, unload_success |-> FALSE,
      kernel_oops_detected |-> FALSE, load_dmesg |-> {}, unload_dmesg |-> {},
      load_msg_found |-> FALSE, unload_msg_found |-> FALSE,
      test_passed |-> FALSE ]

\* load_return_code == 0 and not failure_detected
load_success(load_return_code, dmesg_after_load) ==
    load_return_code = 0 /\ ~failure_detected(dmesg_after_load)

\* results after the log captured after insmod has been searched
AssessLoad(r, load_return_code, dmesg_after_load, load_msg) ==
    LET recent_dmesg == dmesg_after_load
    IN  [ r EXCEPT
            !.load_dmesg = IF load_return_code # 0
                           THEN dmesg_after_load \cup recent_dmesg
                           ELSE dmesg_after_load,
            !.load_success = load_success(load_return_code, dmesg_after_load),
            !.kernel_oops_detected = oops_in(dmesg_after_load),
            !.load_msg_found =
                Given(load_msg) /\ msg_found(load_msg, dmesg_after_load) ]

\* the measured unload run whenever the load succeeded
unload_attempted_IgnoringOops(r) == r.load_success

\* the condition under which the measured unload is run
unload_attempted(r) == r.load_success /\ ~r.kernel_oops_detected

\* unload_return_code == 0 and the log shows no problem
unload_success(unload_return_code, dmesg_after_unload) ==
    unload_return_code = 0 /\ ~unload_problem(dmesg_after_unload)

\* results after the log captured after rmmod has been searched
AssessUnload(r, unload_return_code, dmesg_after_unload, unload_msg) ==
    [ r EXCEPT
        !.unload_dmesg = dmesg_after_unload,
        !.unload_success =
            unload_success(unload_return_code, dmesg_after_unload),
        !.kernel_oops_detected = @ \/ oops_in(dmesg_after_unload),
        !.unload_msg_found =
            Given(unload_msg) /\ msg_found(unload_msg, dmesg_after_unload) ]

\* test_passed with the oops conjunct left out
test_passed_IgnoringOops(r, load_msg, unload_msg) ==
    /\ r.load_success
    /\ r.unload_success
    /\ (~Given(load_msg) \/ r.load_msg_found)
    /\ (~Given(unload_msg) \/ r.unload_msg_found)

\* results["test_passed"]
test_passed(r, load_msg, unload_msg) ==
    /\ r.load_success
    /\ r.unload_success
    /\ ~r.kernel_oops_detected
    /\ (~Given(load_msg) \/ r.load_msg_found)
    /\ (~Given(unload_msg) \/ r.unload_msg_found)

\* the call guarded by the existence of the .ko alone
functional_test_called_KoOnly(m, ko_exists) == ko_exists

\* the condition under which functional_test_driver is called
functional_test_called(m, ko_exists) == m.compilation.success /\ ko_exists

\* clang-tidy run whether or not there is a compilation database
clang_tidy_called_Always(compile_commands_exists) == TRUE

\* os.path.exists(os.path.join(output_dir, "compile_commands.json"))
clang_tidy_called(compile_commands_exists) == compile_commands_exists

-----------------------------------------------------------------------------
(* One run of an evaluator, step by step *)

VARIABLES
    pc,             \* the statement the run is at
    drv,            \* index in SCENARIO_MAP of the driver under evaluation
    metrics,        \* the metrics dict of the evaluator
    results,        \* the results dict of functional_test_driver
    cmds,           \* every run_command call so far, in order
    ko_exists,      \* os.path.exists(module_ko_path)
    ccdb_exists,    \* os.path.exists(compile_commands.json)
    checkpatch_ok,  \* CHECKPATCH_SCRIPT is set, exists and is executable
    loaded,         \* the module is loaded in the running kernel
    locals,         \* the local variables assigned so far that later
                    \* statements or the properties read, by name
    outcomes        \* what the tools returned, when the run is taken up at
                    \* step 6.5; empty in a run followed from its start

vars == << pc, drv, metrics, results, cmds, ko_exists, ccdb_exists,
           checkpatch_ok, loaded, locals, outcomes >>

\* the metrics dict an evaluator starts from
InitialMetrics(k) ==
    [ filename |-> SCENARIO_MAP[k].filename,
      category |-> SCENARIO_MAP[k].category,
      compilation |->
        [success |-> FALSE, errors_count |-> 0, warnings_count |-> 0],
      style |-> [warnings_count |-> 0, errors_count |-> 0],
      static_analysis |-> [issues_count |-> 0, output |-> NoOutput],
      functionality |->
        [ test_attempted |-> FALSE, load_success |-> FALSE,
          unload_success |-> FALSE, kernel_oops_detected |-> FALSE,
          load_msg_found |-> FALSE, unload_msg_found |-> FALSE,
          test_passed |-> FALSE, dmesg_output_load |-> {},
          dmesg_output_unload |-> {} ],
      overall_score |-> 0 ]

\* the entry of evaluate_*_driver for any driver of the registry, in a fresh
\* evaluation directory; a module of that name may be loaded already
Init ==
    /\ pc = "make_clean"
    /\ drv \in 1..Len(SCENARIO_MAP)
    /\ metrics = InitialMetrics(drv)
    /\ results = InitialResults
    /\ cmds = << >>
    /\ ko_exists = FALSE
    /\ ccdb_exists = FALSE
    /\ checkpatch_ok \in BOOLEAN
    /\ loaded \in BOOLEAN
    /\ locals = << >>
    /\ outcomes = << >>

\* run_command(command, ..., description): the call is logged
Run(argv, description) == cmds' = Append(cmds, Cmd(argv, description))

\* the locals with `name` assigned `value`
Assign(l, name, value) ==
    [x \in DOMAIN l \cup {name} |-> IF x = name THEN value ELSE l[x]]

\* run_command(["make", "clean"])
MakeClean ==
    /\ pc = "make_clean"
    /\ Run("make clean", "make clean")
    /\ pc' = "bear"
    /\ UNCHANGED << drv, metrics, results, ko_exists, ccdb_exists,
                    checkpatch_ok, loaded, locals, outcomes >>

\* run_command(["bear", "--", "make"]) and, unless bear was not found, the
\* assessment of the compilation
BearMake ==
    /\ pc = "bear"
    /\ Run("bear -- make", "Bear (make)")
    /\ \E bear_return_code \in ReturnCodes :
         IF bear_return_code = CommandNotFound
         THEN /\ pc' = "make_fallback"
              /\ UNCHANGED << metrics, ko_exists, ccdb_exists, locals >>
         ELSE \E built \in BuildOutcomes, ccdb \in BOOLEAN :
                /\ ko_exists' = built.ko
                /\ ccdb_exists' = ccdb
                /\ locals' = Assign(locals, "final_make_return_code",
                                    bear_return_code)
                /\ metrics' = AssessCompilation(metrics, bear_return_code,
                                  built.errors, built.warnings, built.ko)
                /\ pc' = "checkpatch"
    /\ UNCHANGED << drv, results, checkpatch_ok, loaded, outcomes >>

\* run_command(["make"]) when bear was not found, and the assessment
MakeFallback ==
    /\ pc = "make_fallback"
    /\ Run("make", "make fallback")
    /\ \E make_return_code \in ReturnCodes :
       \E built \in IF make_return_code = CommandNotFound
                    THEN {NotBuilt} ELSE BuildOutcomes :
         /\ ko_exists' = built.ko
         /\ locals' = Assign(locals, "final_make_return_code",
                             make_return_code)
         /\ metrics' = AssessCompilation(metrics, make_return_code,
                           built.errors, built.warnings, built.ko)
    /\ pc' = "checkpatch"
    /\ UNCHANGED << drv, results, ccdb_exists, checkpatch_ok, loaded,
                    outcomes >>

\* style counts of a checkpatch output
StyleCounts == [ warnings_count : 0..MaxCount, errors_count : 0..MaxCount ]

\* step 6.2: checkpatch.pl, when it is usable
Checkpatch ==
    /\ pc = "checkpatch"
    /\ IF checkpatch_ok
       THEN /\ Run("checkpatch.pl --no-tree -f", "checkpatch.pl")
            /\ \E style \in StyleCounts :
                 metrics' = [metrics EXCEPT !.style = style]
       ELSE UNCHANGED << cmds, metrics >>
    /\ pc' = "clang_tidy"
    /\ UNCHANGED << drv, results, ko_exists, ccdb_exists, checkpatch_ok,
                    loaded, locals, outcomes >>

\* the clang-tidy outputs of at most MaxFindings lines
ClangTidyOutputs ==
    { o \in [ClangTidyLines -> 0..MaxFindings] :
        SumOver(o, ClangTidyLines) <= MaxFindings }

\* what clang-tidy prints: when the command is not found, stdout is empty
\* and stderr is "Command not found.", which has no diagnostic line
ClangTidyOutputsOf(clang_tidy_return_code) ==
    IF clang_tidy_return_code = CommandNotFound
    THEN {NoOutput} ELSE ClangTidyOutputs

\* step 6.3: clang-tidy, when the compilation database exists
ClangTidy ==
    /\ pc = "clang_tidy"
    /\ IF clang_tidy_called(ccdb_exists)
       THEN /\ Run("clang-tidy -p .", "clang-tidy")
            /\ \E clang_tidy_return_code \in ReturnCodes :
               \E clang_tidy_output \in
                      ClangTidyOutputsOf(clang_tidy_return_code) :
                 /\ locals' = Assign(locals, "clang_tidy_return_code",
                                     clang_tidy_return_code)
                 /\ metrics' = [metrics EXCEPT !.static_analysis =
                      [ issues_count |->
                          FindAll(DiagnosticLines, clang_tidy_output),
                        output |-> clang_tidy_output ]]
       ELSE UNCHANGED << cmds, metrics, locals >>
    /\ pc' = "functional"
    /\ UNCHANGED << drv, results, ko_exists, ccdb_exists, checkpatch_ok,
                    loaded, outcomes >>

\* step 6.4: test_attempted is set, then functional_test_driver is called
\* or skipped; the .ko that the caller has just found is there for the
\* callee's own os.path.exists, no command having run in between
FunctionalTesting ==
    /\ pc = "functional"
    /\ metrics' = [metrics EXCEPT !.functionality.test_attempted = TRUE]
    /\ results' = InitialResults
    /\ pc' = IF functional_test_called(metrics, ko_exists)
             THEN "lsmod" ELSE "score"
    /\ UNCHANGED << drv, cmds, ko_exists, ccdb_exists, checkpatch_ok, loaded,
                    locals, outcomes >>

-----------------------------------------------------------------------------
(* functional_test_driver *)

\* what "sudo rmmod <module>" can do: it unloads a loaded module and
\* returns 0, or fails (sudo or rmmod missing, module busy or not loaded)
\* and leaves the kernel as it was
RmmodOutcomes(is_loaded) ==
    { [code |-> c, loaded |-> is_loaded] : c \in ReturnCodes \ {0} }
        \cup (IF is_loaded THEN { [code |-> 0, loaded |-> FALSE] } ELSE {})

\* what "sudo insmod <ko>" can do: it loads the module and returns 0, or
\* fails (a module of that name is loaded already, or the load is refused)
InsmodOutcomes(is_loaded) ==
    { [code |-> c, loaded |-> is_loaded] : c \in ReturnCodes \ {0} }
        \cup (IF is_loaded THEN {} ELSE { [code |-> 0, loaded |-> TRUE] })

\* what lsmod prints: the names of the loaded modules, nothing when it fails
LsmodStdout(lsmod_return_code, is_loaded, k) ==
    IF lsmod_return_code = 0 /\ is_loaded THEN {driver_name_stem(k)} ELSE {}

\* the membership test negated
already_loaded_Negated(lsmod_return_code, lsmod_stdout, k) ==
    lsmod_return_code = 0 /\ driver_name_stem(k) \notin lsmod_stdout

\* lsmod_return_code == 0 and module_name in lsmod_stdout
already_loaded(lsmod_return_code, lsmod_stdout, k) ==
    lsmod_return_code = 0 /\ driver_name_stem(k) \in lsmod_stdout

\* lines 292-303: lsmod and, when it succeeds and lists the module, the
\* pre-emptive rmmod, whose return code is only logged
PreCheck ==
    /\ pc = "lsmod"
    /\ \E lsmod_return_code \in ReturnCodes :
         LET lsmod_stdout == LsmodStdout(lsmod_return_code, loaded, drv)
             listed == [ lsmod_return_code |-> lsmod_return_code,
                         lsmod_stdout |-> lsmod_stdout ] @@ locals
         IN  IF already_loaded(lsmod_return_code, lsmod_stdout, drv)
             THEN /\ cmds' = cmds \o
                        << Cmd("lsmod", "lsmod"),
                           Cmd("sudo rmmod", "Pre-emptive rmmod") >>
                  /\ \E o \in RmmodOutcomes(loaded) :
                       /\ loaded' = o.loaded
                       /\ locals' = Assign(listed, "rmmod_return_code", o.code)
             ELSE /\ Run("lsmod", "lsmod")
                  /\ locals' = listed
                  /\ UNCHANGED loaded
    /\ pc' = "load"
    /\ UNCHANGED << drv, metrics, results, ko_exists, ccdb_exists,
                    checkpatch_ok, outcomes >>

\* the commands of the load: the log is cleared, the module inserted, the
\* log read, and read again with -t when insmod failed
LoadCommands(load_return_code) ==
    << Cmd("sudo dmesg -c", "Clear dmesg"),
       Cmd("sudo insmod", "insmod"),
       Cmd("sudo dmesg", "dmesg after load") >>
        \o (IF load_return_code # 0
            THEN << Cmd("sudo dmesg -t", "dmesg after failed load") >>
            ELSE << >>)

\* the stdout of "sudo dmesg" after the load: when "sudo insmod" was not
\* found, sudo is missing, "sudo dmesg" is not found either and stdout is
\* empty
LoadLogs(load_return_code, k) ==
    IF load_return_code = CommandNotFound
    THEN { {} } ELSE SUBSET LoadLogLines(k)

\* lines 305-360: the load and the search of the log captured after it
Load ==
    /\ pc = "load"
    /\ \E o \in InsmodOutcomes(loaded) :
       \E dmesg_after_load \in LoadLogs(o.code, drv) :
         /\ cmds' = cmds \o LoadCommands(o.code)
         /\ loaded' = o.loaded
         /\ locals' = Assign(locals, "load_return_code", o.code)
         /\ results' = AssessLoad(results, o.code, dmesg_after_load,
                                  expected_load_msg(drv))
    /\ pc' = "unload"
    /\ UNCHANGED << drv, metrics, ko_exists, ccdb_exists, checkpatch_ok,
                    outcomes >>

\* the measured unload without the clearing of the log
UnloadCommands_NoClear ==
    << Cmd("sudo rmmod", "rmmod"),
       Cmd("sudo dmesg", "dmesg after unload") >>

\* the commands of the measured unload
UnloadCommands ==
    << Cmd("sudo dmesg -c", "Clear dmesg before unload"),
       Cmd("sudo rmmod", "rmmod"),
       Cmd("sudo dmesg", "dmesg after unload") >>

\* the branch without its rmmod
CleanupCommands_None == << >>

\* the commands of the branch taken when the load failed or an oops was
\* detected
CleanupCommands == << Cmd("sudo rmmod", "Final cleanup rmmod") >>

\* lines 401-410 and metrics["functionality"].update(functional_results)
ReturnResults(m, r, load_msg, unload_msg) ==
    LET functional_results ==
            [r EXCEPT !.test_passed = test_passed(r, load_msg, unload_msg)]
    IN  [m EXCEPT !.functionality = functional_results @@ @]

\* the locals of the evaluator; of those of functional_test_driver, the
\* return code of insmod is kept for the record and the others are gone
EvaluatorLocals(l) ==
    [x \in DOMAIN l \cap {"final_make_return_code", "clang_tidy_return_code",
                           "load_return_code"} |-> l[x]]

\* the function returning without the final cleanup rmmod when the load
\* failed or an oops was detected
Unload_NoCleanup ==
    /\ pc = "unload"
    /\ IF unload_attempted(results)
       THEN \E o \in RmmodOutcomes(loaded) :
              /\ loaded' = o.loaded
              /\ locals' = Assign(EvaluatorLocals(locals),
                                  "final_rmmod_return_code", o.code)
              /\ cmds' = cmds \o UnloadCommands
              /\ \E dmesg_after_unload \in SUBSET UnloadLogLines(drv) :
                   results' = AssessUnload(results, o.code,
                                  dmesg_after_unload,
                                  expected_unload_msg(drv))
       ELSE /\ locals' = EvaluatorLocals(locals)
            /\ UNCHANGED << loaded, cmds, results >>
    /\ metrics' = ReturnResults(metrics, results', expected_load_msg(drv),
                                expected_unload_msg(drv))
    /\ pc' = "score"
    /\ UNCHANGED << drv, ko_exists, ccdb_exists, checkpatch_ok, outcomes >>

\* lines 362-410: the measured unload or the cleanup, then test_passed, the
\* return of the results and their copy into the metrics; the return code of
\* the rmmod, which the function assigns to unload_return_code (line 367) or
\* discards (line 399), is kept for the record as final_rmmod_return_code
Unload ==
    /\ pc = "unload"
    /\ \E o \in RmmodOutcomes(loaded) :
         /\ loaded' = o.loaded
         /\ locals' = Assign(EvaluatorLocals(locals),
                             "final_rmmod_return_code", o.code)
         /\ IF unload_attempted(results)
            THEN /\ cmds' = cmds \o UnloadCommands
                 /\ \E dmesg_after_unload \in SUBSET UnloadLogLines(drv) :
                      results' = AssessUnload(results, o.code,
                                     dmesg_after_unload,
                                     expected_unload_msg(drv))
            ELSE /\ cmds' = cmds \o CleanupCommands
                 /\ UNCHANGED results
    /\ metrics' = ReturnResults(metrics, results', expected_load_msg(drv),
                                expected_unload_msg(drv))
    /\ pc' = "score"
    /\ UNCHANGED << drv, ko_exists, ccdb_exists, checkpatch_ok, outcomes >>

\* step 6.5 and the return of the metrics record
Score ==
    /\ pc = "score"
    /\ metrics' = CalculateScores(metrics, checkpatch_ok)
    /\ pc' = "done"
    /\ UNCHANGED << drv, results, cmds, ko_exists, ccdb_exists,
                    checkpatch_ok, loaded, locals, outcomes >>

Next ==
    \/ MakeClean
    \/ BearMake
    \/ MakeFallback
    \/ Checkpatch
    \/ ClangTidy
    \/ FunctionalTesting
    \/ PreCheck
    \/ Load
    \/ Unload
    \/ Score

Spec == Init /\ [][Next]_vars

-----------------------------------------------------------------------------
(* The evaluator as a function of what the tools return, up to step 6.5 *)

\* results of functional_test_driver for given return codes and logs
functional_results(k, ft) ==
    LET loaded_r == AssessLoad(InitialResults, ft.load_code, ft.load_log,
                               expected_load_msg(k))
        unloaded_r == IF unload_attempted(loaded_r)
                      THEN AssessUnload(loaded_r, ft.unload_code,
                               ft.unload_log, expected_unload_msg(k))
                      ELSE loaded_r
    IN  [unloaded_r EXCEPT !.test_passed =
            test_passed(unloaded_r, expected_load_msg(k),
                        expected_unload_msg(k))]

\* the metrics dict when step 6.5 starts, for tool outcomes t
MetricsBeforeScoring(k, t) ==
    LET compiled == AssessCompilation(InitialMetrics(k), t.return_code,
                        t.errors, t.warnings, t.ko)
        checked == [compiled EXCEPT
                      !.style = t.style,
                      !.static_analysis =
                          [issues_count |-> FindAll(DiagnosticLines, t.output),
                           output |-> t.output],
                      !.functionality.test_attempted = TRUE]
    IN  IF functional_test_called(checked, t.ko)
        THEN [checked EXCEPT !.functionality = functional_results(k, t.ft) @@ @]
        ELSE checked

\* counts of issues tried in the scoring model: none, a few, and enough to
\* reach every floor
CountSamples == {0, FewIssues, ManyIssues}

\* clang-tidy outputs tried in the scoring model: at most MaxKinds kinds of
\* line, each in a sampled number, and the output with many lines of every
\* kind
MaxKinds == 1

OutputSamples ==
    { o \in [ClangTidyLines -> CountSamples] :
        Cardinality({l \in ClangTidyLines : o[l] > 0}) <= MaxKinds }
        \cup { [l \in ClangTidyLines |-> ManyIssues] }

\* two functional tests: one that passes and one whose insmod fails
FunctionalSamples(k) ==
    { [load_code |-> c, load_log |-> {expected_load_msg(k)},
       unload_code |-> 0, unload_log |-> {expected_unload_msg(k)}] :
      c \in {0, 1} }

\* tool outcomes tried in the scoring model; checkpatch reports nothing
\* when it is not usable
ToolOutcomes(k, cp_ok) ==
    [ return_code : {0, 1}, errors : {0, FewIssues}, warnings : CountSamples,
      ko : BOOLEAN,
      style : IF cp_ok
              THEN [warnings_count : CountSamples, errors_count : CountSamples]
              ELSE {[warnings_count |-> 0, errors_count |-> 0]},
      output : OutputSamples,
      ft : FunctionalSamples(k) ]

\* a run taken up where step 6.5 starts
InitScore ==
    /\ pc = "score"
    /\ drv \in 1..Len(SCENARIO_MAP)
    /\ checkpatch_ok \in BOOLEAN
    /\ outcomes \in ToolOutcomes(drv, checkpatch_ok)
    /\ metrics = MetricsBeforeScoring(drv, outcomes)
    /\ results = InitialResults
    /\ cmds = << >>
    /\ ko_exists = outcomes.ko
    /\ ccdb_exists = FALSE
    /\ loaded = FALSE
    /\ locals = [final_make_return_code |-> outcomes.return_code]

SpecScore == InitScore /\ [][Score]_vars

-----------------------------------------------------------------------------
(* parse_ai_output_file *)

\* The variables of the evaluator serve the parser as well: pc is the
\* statement of parse_ai_output_file and locals holds its variables by name,
\* with the messages given to logger.error and, for each block appended to
\* drivers_data, the identifiers of the START and END lines it came from
\* (accepted_from).

\* the number of lines of the input file
MaxLines == 12

\* current_tag = None; no identifier is empty, the expressions ask for one
\* character at least
None == ""

\* the identifiers tried: those of the registry and one that is not in it
Identifiers ==
    { SCENARIO_MAP[k].tag : k \in 1..Len(SCENARIO_MAP) } \cup { "spi_flash" }

\* lines of code, named by the marker they hold
CodeLines == { "register_chrdev", "platform_driver" }

\* the lines of an input file: "// START:<id>", "// END:<id>" and code
StartLine(id) == << "// START:", id >>
EndLine(id) == << "// END:", id >>
CodeLine(text) == << text >>

InputLines ==
    { StartLine(id) : id \in Identifiers }
        \cup { EndLine(id) : id \in Identifiers }
        \cup { CodeLine(text) : text \in CodeLines }

\* start_tag_re.match(line) and end_tag_re.match(line): group(1), or None
start_match(line) ==
    IF Len(line) = 2 /\ line[1] = "// START:" THEN line[2] ELSE None

end_match(line) ==
    IF Len(line) = 2 /\ line[1] = "// END:" THEN line[2] ELSE None

\* current_tag and current_tag == matched_tag
tags_match(current_tag, matched_tag) ==
    current_tag # None /\ current_tag = matched_tag

\* the tag looked up anywhere in the registry
expected_here_Anywhere(current_tag, scenario_index) ==
    \E k \in 1..Len(SCENARIO_MAP) : current_tag = SCENARIO_MAP[k].tag

\* current_tag == expected_scenario["tag"]
expected_here(current_tag, scenario_index) ==
    current_tag = SCENARIO_MAP[scenario_index + 1].tag

\* the category told from the text, the character-device marker first
appended_block_Classified(expected_scenario, current_code_lines) ==
    [ filename |-> expected_scenario.filename,
      code_content |-> current_code_lines,
      category |-> IF "register_chrdev" \in current_code_lines
                   THEN "char_device_basic_rw"
                   ELSE IF "platform_driver" \in current_code_lines
                   THEN "platform_device_gpio_irq"
                   ELSE expected_scenario.category ]

\* the dict of lines 183-187; code_content is the set of the lines joined
appended_block(expected_scenario, current_code_lines) ==
    [ filename |-> expected_scenario.filename,
      code_content |-> current_code_lines,
      category |-> expected_scenario.category ]

\* Beside the variables of the function, l holds what the properties read
\* of the history of the open block: ends_skipped, the number of END lines
\* with another identifier met since its START, and held_over, the lines
\* the block held at the last of them.  Both are copied into accepted_from
\* when the block is appended.
NoHistory == [ ends_skipped |-> 0, held_over |-> {} ]

\* the lines of the open block thrown away at an END line with another
\* identifier
skipped_end_Discarding(next) ==
    IF next.current_tag # None
    THEN [next EXCEPT !.current_code_lines = {},
                      !.open_block =
                         [ ends_skipped |-> @.ends_skipped + 1,
                           held_over |-> next.current_code_lines ]]
    ELSE next

\* lines 196-197: an END line that does not match the open START, or comes
\* with no START open, is logged (a warning) and nothing else is done
skipped_end(next) ==
    IF next.current_tag # None
    THEN [next EXCEPT !.open_block =
                         [ ends_skipped |-> @.ends_skipped + 1,
                           held_over |-> next.current_code_lines ]]
    ELSE next

\* one pass of the while loop over `line`
ParseLine(l, line) ==
    LET next == [l EXCEPT !.i = @ + 1, !.line = line]
        closed == [next EXCEPT !.current_tag = None,
                               !.current_code_lines = {},
                               !.open_block = NoHistory]
    IN  IF start_match(line) # None
        THEN [next EXCEPT !.current_tag = start_match(line),
                          !.current_code_lines = {},
                          !.open_block = NoHistory]
        ELSE IF end_match(line) # None
        THEN LET matched_tag == end_match(line)
             IN  IF tags_match(l.current_tag, matched_tag)
                 THEN IF /\ l.scenario_index < Len(SCENARIO_MAP)
                         /\ expected_here(l.current_tag, l.scenario_index)
                      THEN LET expected_scenario ==
                                   SCENARIO_MAP[l.scenario_index + 1]
                           IN  [closed EXCEPT
                                 !.drivers_data = Append(@,
                                   appended_block(expected_scenario,
                                                  l.current_code_lines)),
                                 !.accepted_from = Append(@,
                                   [ start |-> l.current_tag,
                                     end |-> matched_tag ] @@ l.open_block),
                                 !.scenario_index = @ + 1 ]
                      ELSE [closed EXCEPT
                             !.logged_errors =
                               IF l.scenario_index < Len(SCENARIO_MAP)
                               THEN Append(@, "Tag mismatch for scenario")
                               ELSE @ ]
                 ELSE skipped_end(next)
        ELSE IF l.current_tag # None
        THEN [next EXCEPT !.current_code_lines = @ \cup {line[1]}]
        ELSE next

InitParse ==
    /\ pc = "open"
    /\ drv = 1
    /\ metrics = InitialMetrics(1)
    /\ results = InitialResults
    /\ cmds = << >>
    /\ ko_exists = FALSE
    /\ ccdb_exists = FALSE
    /\ checkpatch_ok = FALSE
    /\ loaded = FALSE
    /\ locals = [ drivers_data |-> << >>, current_tag |-> None,
                  current_code_lines |-> {}, accepted_from |-> << >>,
                  logged_errors |-> << >> ]
    /\ outcomes = << >>

\* lines 158-163 and 206-211: the file is read, or the parser returns []
OpenFile ==
    /\ pc = "open"
    /\ \E readable \in BOOLEAN :
         IF readable
         THEN /\ locals' = [ scenario_index |-> 0, i |-> 0,
                              line |-> << >>, open_block |-> NoHistory ]
                                @@ locals
              /\ pc' = "while"
         ELSE /\ locals' = [ locals EXCEPT !.logged_errors =
                               Append(@, "Error: AI output file not found.") ]
              /\ pc' = "returned"
    /\ UNCHANGED << drv, metrics, results, cmds, ko_exists, ccdb_exists,
                    checkpatch_ok, loaded, outcomes >>

\* lines 164-204: the next line of the file
ReadLine ==
    /\ pc = "while"
    /\ locals.i < MaxLines
    /\ \E line \in InputLines : locals' = ParseLine(locals, line)
    /\ UNCHANGED << pc, drv, metrics, results, cmds, ko_exists, ccdb_exists,
                    checkpatch_ok, loaded, outcomes >>

\* lines 213-219: i has reached len(lines); the count is checked and
\* drivers_data returned
ReturnDrivers ==
    /\ pc = "while"
    /\ locals' = IF Len(locals.drivers_data) # Len(SCENARIO_MAP)
                 THEN [ locals EXCEPT !.logged_errors =
                          Append(@, "Expected to parse 5 drivers") ]
                 ELSE locals
    /\ pc' = "returned"
    /\ UNCHANGED << drv, metrics, results, cmds, ko_exists, ccdb_exists,
                    checkpatch_ok, loaded, outcomes >>

NextParse ==
    \/ OpenFile
    \/ ReadLine
    \/ ReturnDrivers

SpecParse == InitParse /\ [][NextParse]_vars

\* Two input files read side by side: they have the same START and END
\* lines at the same places, and any code lines at the other places.  locals
\* holds the variables of the two calls of parse_ai_output_file, under
\* `first` and `second`.

\* the number of lines of each of the two files
MaxPairLines == 7

\* the variables of the function when the while loop starts
LoopEntry ==
    [ drivers_data |-> << >>, current_tag |-> None,
      current_code_lines |-> {}, accepted_from |-> << >>,
      logged_errors |-> << >>, scenario_index |-> 0, i |-> 0,
      line |-> << >>, open_block |-> NoHistory ]

\* the line is a START or an END line
IsTagLine(line) == start_match(line) # None \/ end_match(line) # None

\* the lines the second file can have where the first has `line`
Counterparts(line) ==
    IF IsTagLine(line) THEN {line}
    ELSE { other \in InputLines : ~IsTagLine(other) }

InitPair ==
    /\ pc = "while"
    /\ drv = 1
    /\ metrics = InitialMetrics(1)
    /\ results = InitialResults
    /\ cmds = << >>
    /\ ko_exists = FALSE
    /\ ccdb_exists = FALSE
    /\ checkpatch_ok = FALSE
    /\ loaded = FALSE
    /\ locals = [ first |-> LoopEntry, second |-> LoopEntry ]
    /\ outcomes = << >>

\* lines 164-204 in both calls: the next line of each file
ReadPair ==
    /\ pc = "while"
    /\ locals.first.i < MaxPairLines
    /\ \E line \in InputLines :
       \E other \in Counterparts(line) :
         locals' = [ first |-> ParseLine(locals.first, line),
                     second |-> ParseLine(locals.second, other) ]
    /\ UNCHANGED << pc, drv, metrics, results, cmds, ko_exists, ccdb_exists,
                    checkpatch_ok, loaded, outcomes >>

\* lines 213-219 in both calls: the two lists are returned
ReturnPair ==
    /\ pc = "while"
    /\ pc' = "returned"
    /\ UNCHANGED << drv, metrics, results, cmds, ko_exists, ccdb_exists,
                    checkpatch_ok, loaded, locals, outcomes >>

NextPair ==
    \/ ReadPair
    \/ ReturnPair

SpecPair == InitPair /\ [][NextPair]_vars

-----------------------------------------------------------------------------
(* The main execution flow: one batch of drivers *)

\* what the tools return for one driver of a batch, with the texts that
\* generate_fine_tuning_suggestions searches: a clean driver and one driver
\* for each way of falling short
CleanDriver(k) ==
    [ return_code |-> 0, errors |-> 0, warnings |-> 0, ko |-> TRUE,
      style |-> [warnings_count |-> 0, errors_count |-> 0],
      output |-> NoOutput,
      ft |-> [load_code |-> 0, load_log |-> {expected_load_msg(k)},
              unload_code |-> 0, unload_log |-> {expected_unload_msg(k)}],
      build_output |-> {}, style_output |-> {}, ccdb |-> TRUE ]

BuildFailure(k) ==
    [ CleanDriver(k) EXCEPT !.return_code = 1, !.errors = MaxCount,
                            !.warnings = MaxCount, !.ko = FALSE,
                            !.ccdb = FALSE,
                            !.build_output = {"proc_create", "proc_ops"} ]

LoadFailure(k) ==
    [ CleanDriver(k) EXCEPT !.ft.load_code = 1,
                            !.ft.load_log = {"Unknown symbol in module"} ]

UnloadFailure(k) ==
    [ CleanDriver(k) EXCEPT !.ft.unload_code = 1,
          !.ft.unload_log = {"rmmod: ERROR: Module is in use"} ]

KernelOops(k) ==
    [ CleanDriver(k) EXCEPT
          !.ft.load_log = {expected_load_msg(k), "kernel BUG: soft lockup"} ]

\* style and static-analysis findings, and neither expected message in the
\* log; style findings are there only when checkpatch.pl could be run
Findings(k, cp_ok) ==
    [ CleanDriver(k) EXCEPT
          !.style = IF cp_ok
                    THEN [warnings_count |-> MaxCount, errors_count |-> 0]
                    ELSE @,
          !.style_output = IF cp_ok THEN {"LINE_LENGTH_80"} ELSE @,
          !.output = [@ EXCEPT !["f.c:1:1: warning: resource leak"] =
                                   MaxFindings],
          !.ft.load_log = {}, !.ft.unload_log = {} ]

\* the outcomes of the functional test and of the build
CoreOutcomes(k, cp_ok) ==
    { CleanDriver(k), BuildFailure(k), LoadFailure(k), UnloadFailure(k),
      KernelOops(k) }

\* style warnings alone, with neither expected message in the log
StyleWarnings(k, cp_ok) ==
    [ CleanDriver(k) EXCEPT
          !.style = IF cp_ok
                    THEN [warnings_count |-> MaxCount, errors_count |-> 0]
                    ELSE @,
          !.style_output = IF cp_ok THEN {"BRACES"} ELSE @,
          !.ft.load_log = {}, !.ft.unload_log = {} ]

\* style errors alone
StyleErrors(k, cp_ok) ==
    [ CleanDriver(k) EXCEPT
          !.style = IF cp_ok
                    THEN [warnings_count |-> 0, errors_count |-> MaxCount]
                    ELSE @,
          !.style_output = IF cp_ok THEN {"indentation"} ELSE @ ]

\* the batches sampled: any driver has one of the core outcomes or the
\* findings, and the first driver may have style findings alone
BatchOutcomes(k, cp_ok) ==
    CoreOutcomes(k, cp_ok) \cup { Findings(k, cp_ok) }
        \cup IF k = 1
             THEN { StyleWarnings(k, cp_ok), StyleErrors(k, cp_ok) }
             ELSE {}

\* the record returned as it is before step 6.5
file_metrics_Unscored(k, t, cp_ok) ==
    [ MetricsBeforeScoring(k, t) EXCEPT
        !.compilation = [output |-> t.build_output] @@ @,
        !.style = [output |-> t.style_output] @@ @ ]

\* the record evaluate_*_driver returns for tool outcomes t, with the
\* outputs it stores
file_metrics(k, t, cp_ok) ==
    LET scored_record == CalculateScores(MetricsBeforeScoring(k, t), cp_ok)
    IN  [ scored_record EXCEPT
            !.compilation = [output |-> t.build_output] @@ @,
            !.style = [output |-> t.style_output] @@ @ ]

\* the commands of step 6.1, bear being there
BuildCommands ==
    << Cmd("make clean", "make clean"), Cmd("bear -- make", "Bear (make)") >>

\* the command of step 6.2
StyleCommands(cp_ok) ==
    IF cp_ok
    THEN << Cmd("checkpatch.pl --no-tree -f", "checkpatch.pl") >>
    ELSE << >>

\* the command of step 6.3
AnalysisCommands(t) ==
    IF clang_tidy_called(t.ccdb)
    THEN << Cmd("clang-tidy -p .", "clang-tidy") >>
    ELSE << >>

\* the commands of functional_test_driver when no module of the name is
\* loaded beforehand
FunctionalCommands(k, t) ==
    LET compiled == AssessCompilation(InitialMetrics(k), t.return_code,
                        t.errors, t.warnings, t.ko)
        loaded_r == AssessLoad(InitialResults, t.ft.load_code, t.ft.load_log,
                               expected_load_msg(k))
    IN  IF functional_test_called(compiled, t.ko)
        THEN << Cmd("lsmod", "lsmod") >>
                 \o LoadCommands(t.ft.load_code)
                 \o (IF unload_attempted(loaded_r)
                     THEN UnloadCommands ELSE CleanupCommands)
        ELSE << >>

\* the style check run before the build
CommandsOf_StyleFirst(k, t, cp_ok) ==
    StyleCommands(cp_ok) \o BuildCommands \o AnalysisCommands(t)
        \o FunctionalCommands(k, t)

\* every run_command call of evaluate_*_driver for tool outcomes t, in the
\* order of the calls
CommandsOf(k, t, cp_ok) ==
    BuildCommands \o StyleCommands(cp_ok) \o AnalysisCommands(t)
        \o FunctionalCommands(k, t)

\* run_command(..., cwd=output_dir, ...): the calls with the evaluation
\* directory of driver k, results/<driver_name_stem>
InDirectory(commands, k) ==
    [ i \in DOMAIN commands |->
        [cwd |-> driver_name_stem(k)] @@ commands[i] ]

\* the runs an evaluator can make for driver k, one for each of the tool
\* outcomes of the batch: the record returned and the commands issued
EvaluatorRecords(cp_ok, core_only) ==
    [ k \in 1..Len(SCENARIO_MAP) |->
        { [ returned |-> file_metrics(k, t, cp_ok),
            commands |-> InDirectory(CommandsOf(k, t, cp_ok), k) ] :
            t \in IF core_only THEN CoreOutcomes(k, cp_ok)
                  ELSE BatchOutcomes(k, cp_ok) } ]

\* the dispatcher without an entry for the last category
evaluation_functions_WithoutGeneric ==
    { "char_device_basic_rw", "char_device_ioctl_sync",
      "platform_device_gpio_irq", "char_device_procfs" }

\* the keys of the dispatcher
evaluation_functions ==
    { "char_device_basic_rw", "char_device_ioctl_sync",
      "platform_device_gpio_irq", "char_device_procfs",
      "generic_kernel_module" }

\* the record appended for a category without an evaluation function
UnevaluatedRecord(driver_info) ==
    [ filename |-> driver_info.filename, category |-> driver_info.category,
      compilation |-> [success |-> FALSE, errors_count |-> 99,
                       warnings_count |-> 0, output |-> {}],
      style |-> [warnings_count |-> 0, errors_count |-> 0, output |-> {}],
      static_analysis |-> [issues_count |-> 0, output |-> NoOutput],
      functionality |->
        [ test_attempted |-> FALSE, load_success |-> FALSE,
          unload_success |-> FALSE, kernel_oops_detected |-> FALSE,
          load_msg_found |-> FALSE, unload_msg_found |-> FALSE,
          test_passed |-> FALSE, dmesg_output_load |-> {},
          dmesg_output_unload |-> {} ],
      overall_score |-> 0 ]

\* what parse_ai_output_file returns when it has accepted n blocks
ParsedDrivers(n) ==
    [ k \in 1..n |-> [ filename |-> SCENARIO_MAP[k].filename,
                       code_content |-> << >>,
                       category |-> SCENARIO_MAP[k].category ] ]

\* sum(...) over a list
RECURSIVE SumSeq(_)
SumSeq(q) == IF q = << >> THEN 0 ELSE Head(q) + SumSeq(Tail(q))

\* the kinds of clang-tidy line present in an output
LinesOf(output) == { l \in DOMAIN output : output[l] > 0 }

\* "resource leak" in ... or "not freed" in ...
LeakMentioned(lines) == "f.c:1:1: warning: resource leak" \in lines

\* "concurrency" in ... or "race condition" in ... or "shared data" in ...
RaceMentioned(lines) == "f.c:1:1: warning: race condition" \in lines

\* a suggestion made whatever `cond` is
If_Always(cond, suggestion) == << suggestion >>

\* a suggestion made only under `cond`
If(cond, suggestion) == IF cond THEN << suggestion >> ELSE << >>

\* the one suggestion made when nothing was found
Excellent == "Excellent! ... Consider increasing scenario complexity"

\* the list with the "Excellent!" suggestion left out
generate_fine_tuning_suggestions_Silent(all_results, CHECKPATCH_SCRIPT) ==
    << >>

\* generate_fine_tuning_suggestions(all_results); the numbers that the
\* messages quote are left out of the texts
generate_fine_tuning_suggestions(all_results, CHECKPATCH_SCRIPT) ==
    LET total_drivers == Len(all_results)
        r == all_results
        failed_compilation_count ==
            Cardinality({ j \in DOMAIN r : ~r[j].compilation.success })
        total_compile_errors ==
            SumSeq([ j \in DOMAIN r |-> r[j].compilation.errors_count ])
        total_compile_warnings ==
            SumSeq([ j \in DOMAIN r |-> r[j].compilation.warnings_count ])
        total_style_errors ==
            SumSeq([ j \in DOMAIN r |-> r[j].style.errors_count ])
        total_style_warnings ==
            SumSeq([ j \in DOMAIN r |-> r[j].style.warnings_count ])
        total_static_analysis_issues ==
            SumSeq([ j \in DOMAIN r |-> r[j].static_analysis.issues_count ])
        failed_load_count ==
            Cardinality({ j \in DOMAIN r :
                /\ r[j].functionality.test_attempted
                /\ ~r[j].functionality.load_success })
        failed_unload_count ==
            Cardinality({ j \in DOMAIN r :
                /\ r[j].functionality.load_success
                /\ ~r[j].functionality.unload_success })
        oops_detected_count ==
            Cardinality({ j \in DOMAIN r :
                r[j].functionality.kernel_oops_detected })
        missing_load_msg_count ==
            Cardinality({ j \in DOMAIN r :
                /\ r[j].functionality.test_attempted
                /\ r[j].functionality.load_success
                /\ ~r[j].functionality.load_msg_found })
        missing_unload_msg_count ==
            Cardinality({ j \in DOMAIN r :
                /\ r[j].functionality.test_attempted
                /\ r[j].functionality.unload_success
                /\ ~r[j].functionality.unload_msg_found })
        checkpatch_output_combined ==
            UNION { r[j].style.output : j \in DOMAIN r }
        clang_output_combined ==
            UNION { LinesOf(r[j].static_analysis.output) : j \in DOMAIN r }
        compilation ==
            IF failed_compilation_count > 0
            THEN << "Model frequently generates non-compiling code" >>
                 \o If(total_compile_errors > 0,
                       "  - Resolving total compilation errors")
                 \o If(total_compile_warnings > 0,
                       "  - Addressing total compilation warnings")
            ELSE << >>
        style ==
            IF CHECKPATCH_SCRIPT
                 /\ (total_style_errors > 0 \/ total_style_warnings > 0)
            THEN << "Model needs improvement in Linux kernel coding style" >>
                 \o If("LINE_LENGTH_80" \in checkpatch_output_combined,
                       "  - Adhering to the 80-character line length limit")
                 \o If("BRACES" \in checkpatch_output_combined,
                       "  - Correct brace placement")
                 \o If("indentation" \in checkpatch_output_combined,
                       "  - Consistent indentation")
                 \o << "  - Reviewing variable naming conventions" >>
            ELSE If(~CHECKPATCH_SCRIPT,
                    "Checkpatch.pl was not found/executable")
        static_analysis ==
            IF total_static_analysis_issues > 0
            THEN << "Model generates code with static analysis issues" >>
                 \o If(LeakMentioned(clang_output_combined),
                       "  - Resource management")
                 \o If(RaceMentioned(clang_output_combined),
                       "  - Concurrency safety")
                 \o << "  - General code correctness" >>
            ELSE << >>
        oops ==
            IF oops_detected_count > 0
            THEN << "Critical: kernel oopses/panics detected",
                    "  - Dereferencing NULL pointers",
                    "  - Incorrect use of kernel APIs",
                    "  - Race conditions leading to corrupted data" >>
            ELSE << >>
        functional ==
            If(failed_load_count > 0,
               "Model frequently generates modules that fail to load")
            \o If(failed_unload_count > 0,
                  "Model often generates modules that fail to unload")
            \o If(missing_load_msg_count > 0 \/ missing_unload_msg_count > 0,
                  "Model sometimes misses expected printk messages")
        proc_api ==
            If(\E j \in DOMAIN all_results :
                   {"proc_create", "proc_ops"}
                       \subseteq all_results[j].compilation.output,
               "Specific: The AI is using an outdated API for /proc")
        excellent ==
            If(/\ failed_compilation_count = 0
               /\ total_style_errors = 0
               /\ total_static_analysis_issues = 0
               /\ oops_detected_count = 0,
               Excellent)
    IN  IF total_drivers = 0
        THEN << "No drivers evaluated. Unable to provide suggestions." >>
        ELSE compilation \o style \o static_analysis \o oops \o functional
                 \o proc_api \o excellent

\* The variables of the evaluator serve the main flow as well: pc is the
\* statement of __main__, drv is i + 1 in the loop over parsed_drivers,
\* metrics is the last file_metrics, and locals holds the variables of
\* __main__ by name, with CHECKPATCH_SCRIPT (set or not), the exit code once
\* exit() is called and the messages given to logger.error.  outcomes holds,
\* for each driver of the registry, the runs its evaluator can make in this
\* environment, and cmds every run_command call of the batch with its cwd.

\* CHECKPATCH_SCRIPT may be set and yet not be executable
InitBatch(core_only) ==
    /\ pc = "main"
    /\ drv = 1
    /\ metrics = InitialMetrics(1)
    /\ results = InitialResults
    /\ cmds = << >>
    /\ ko_exists = FALSE
    /\ ccdb_exists = FALSE
    /\ checkpatch_ok \in BOOLEAN
    /\ loaded = FALSE
    /\ \E script_set \in BOOLEAN :
         /\ checkpatch_ok => script_set
         /\ locals = [ CHECKPATCH_SCRIPT |-> script_set,
                       overall_model_scores |-> << >>,
                       all_driver_results |-> << >>,
                       logged_errors |-> << >> ]
    /\ outcomes = EvaluatorRecords(checkpatch_ok, core_only)

InitMain == InitBatch(FALSE)

\* logger.error(message)
LogError(l, message) ==
    [l EXCEPT !.logged_errors = Append(@, message)]

\* the message logged and the exit(1) forgotten
Exit_LoggingOnly(message) ==
    /\ locals' = LogError(locals, message)
    /\ pc' = pc

\* logger.error(message) and exit(1)
Exit(message) ==
    /\ locals' = Assign(LogError(locals, message), "exit_code", 1)
    /\ pc' = "exited"

\* lines 1871-1876: the AI output file must exist
MainStart ==
    /\ pc = "main"
    /\ \E input_file_exists \in BOOLEAN :
         IF input_file_exists
         THEN pc' = "parse" /\ UNCHANGED locals
         ELSE Exit("Error: The expected AI output file not found.")
    /\ UNCHANGED << drv, metrics, results, cmds, ko_exists, ccdb_exists,
                    checkpatch_ok, loaded, outcomes >>

\* lines 1878-1890: the file is parsed, and the run goes on only with as
\* many blocks as the registry has scenarios; the parser logs its own error
\* when the count differs
Parse ==
    /\ pc = "parse"
    /\ \E n \in 0..Len(SCENARIO_MAP) :
         LET parsed_drivers == ParsedDrivers(n)
             parsed == Assign(locals, "parsed_drivers", parsed_drivers)
             returned == IF Len(parsed_drivers) # Len(SCENARIO_MAP)
                         THEN LogError(parsed,
                                  "Expected to parse 5 drivers")
                         ELSE parsed
         IN  IF parsed_drivers = << >>
             THEN /\ locals' = Assign(LogError(returned,
                                   "No driver code blocks found. Exiting."),
                                   "exit_code", 1)
                  /\ pc' = "exited"
             ELSE IF Len(parsed_drivers) # Len(SCENARIO_MAP)
             THEN /\ locals' = Assign(LogError(returned,
                                   "Mismatch: Expected 5 drivers"),
                                   "exit_code", 1)
                  /\ pc' = "exited"
             ELSE /\ locals' = returned
                  /\ pc' = "prepare"
    /\ UNCHANGED << drv, metrics, results, cmds, ko_exists, ccdb_exists,
                    checkpatch_ok, loaded, outcomes >>

\* what open(TEMPLATE_MAKEFILE) can meet
TemplateStates == { "readable", "missing", "unreadable" }

\* lines 1901-1929: the driver is written to its directory and its Makefile
\* made from the template
Prepare ==
    /\ pc = "prepare"
    /\ \E template \in TemplateStates :
         CASE template = "readable" -> pc' = "evaluate" /\ UNCHANGED locals
           [] template = "missing" ->
                Exit("Error: Template Makefile not found.")
           [] template = "unreadable" -> Exit("Error creating Makefile")
    /\ UNCHANGED << drv, metrics, results, cmds, ko_exists, ccdb_exists,
                    checkpatch_ok, loaded, outcomes >>

\* lines 1931-1949: the evaluation function of the category is called and
\* its record and score are appended; then the next driver, if any
Evaluate ==
    /\ pc = "evaluate"
    /\ LET driver_info == locals.parsed_drivers[drv]
       IN  \E run \in outcomes[drv] :
             LET evaluation_func ==
                   driver_info.category \in evaluation_functions
                 record == IF evaluation_func THEN run.returned
                           ELSE UnevaluatedRecord(driver_info)
             IN  /\ metrics' = record
                 /\ cmds' = IF evaluation_func
                            THEN cmds \o run.commands ELSE cmds
                 /\ locals' = [ locals EXCEPT
                      !.all_driver_results = Append(@, record),
                      !.overall_model_scores =
                          Append(@, record.overall_score) ]
    /\ IF drv < Len(locals.parsed_drivers)
       THEN drv' = drv + 1 /\ pc' = "prepare"
       ELSE UNCHANGED drv /\ pc' = "average"
    /\ UNCHANGED << results, ko_exists, ccdb_exists, checkpatch_ok,
                    loaded, outcomes >>

\* the sum without the division
Mean_Undivided(scores) == Rat(SumSeq(scores), 1)

\* sum(overall_model_scores) / len(overall_model_scores), a rational
\* number of hundredths
Mean(scores) == Rat(SumSeq(scores), Len(scores))

\* lines 1955-1974: the average and the table of results
Average ==
    /\ pc = "average"
    /\ IF locals.overall_model_scores # << >>
       THEN /\ locals' = Assign(locals, "overall_model_average_score",
                                Mean(locals.overall_model_scores))
            /\ pc' = "suggest"
       ELSE pc' = "finished" /\ UNCHANGED locals
    /\ UNCHANGED << drv, metrics, results, cmds, ko_exists, ccdb_exists,
                    checkpatch_ok, loaded, outcomes >>

\* the suggestions made, and every overall_score set to zero on the way
Suggest_Rescoring ==
    /\ pc = "suggest"
    /\ locals' = Assign(
           [ locals EXCEPT !.all_driver_results =
               [ k \in DOMAIN @ |-> [ @[k] EXCEPT !.overall_score = 0 ] ] ],
           "suggestions",
           generate_fine_tuning_suggestions(locals.all_driver_results,
                                            locals.CHECKPATCH_SCRIPT))
    /\ pc' = "report"
    /\ UNCHANGED << drv, metrics, results, cmds, ko_exists, ccdb_exists,
                    checkpatch_ok, loaded, outcomes >>

\* lines 1976-1982: the suggestions
Suggest ==
    /\ pc = "suggest"
    /\ locals' = Assign(locals, "suggestions",
           generate_fine_tuning_suggestions(locals.all_driver_results,
                                            locals.CHECKPATCH_SCRIPT))
    /\ pc' = "report"
    /\ UNCHANGED << drv, metrics, results, cmds, ko_exists, ccdb_exists,
                    checkpatch_ok, loaded, outcomes >>

\* lines 1985-2001: summary_report.json is written
Report ==
    /\ pc = "report"
    /\ locals' = Assign(locals, "summary_data",
           [ overall_average_score |-> locals.overall_model_average_score,
             fine_tuning_suggestions |-> locals.suggestions,
             individual_driver_results |-> locals.all_driver_results ])
    /\ pc' = "finished"
    /\ UNCHANGED << drv, metrics, results, cmds, ko_exists, ccdb_exists,
                    checkpatch_ok, loaded, outcomes >>

NextMain ==
    \/ MainStart
    \/ Parse
    \/ Prepare
    \/ Evaluate
    \/ Average
    \/ Suggest
    \/ Report

SpecMain == InitMain /\ [][NextMain]_vars

\* the statements of __main__ run one after the other until the script ends
\* or exits: a step that can be taken is taken
FairSpecMain ==
    InitBatch(TRUE) /\ [][NextMain]_vars /\ WF_vars(NextMain)

-----------------------------------------------------------------------------
(* Properties of the evaluator and of the functional test *)

\* the commands that reach the kernel, all issued by functional_test_driver
KernelCommands ==
    { "lsmod", "sudo rmmod", "sudo insmod", "sudo dmesg -c", "sudo dmesg",
      "sudo dmesg -t" }

\* positions of the command log that hold the command argv
Issued(argv) == { i \in 1..Len(cmds) : cmds[i].argv = argv }

\* positions of the command log whose call carries the description
Described(description) ==
    { i \in 1..Len(cmds) : cmds[i].description = description }

\* functional_test_driver is running or has been called
functional_test_entered ==
    pc \in {"lsmod", "load", "unload"} \/ Issued("lsmod") # {}

\* the build step is over and its verdict is in the metrics
compilation_assessed == "final_make_return_code" \in DOMAIN locals

\* C1: in the functionality section of the metrics, which holds the result
\* of functional_test_driver, test_passed is true only if the load and the
\* unload succeeded, no kernel oops was detected after either, and each
\* expected message that was given was found.
C1_TestPassedOnlyIf ==
    LET f == metrics.functionality
    IN  f.test_passed =>
          /\ f.load_success
          /\ f.unload_success
          /\ ~f.kernel_oops_detected
          /\ (Given(expected_load_msg(drv)) => f.load_msg_found)
          /\ (Given(expected_unload_msg(drv)) => f.unload_msg_found)

\* a functional test that passed and was scored
C1_Witness == pc = "done" /\ metrics.functionality.test_passed

\* C2: functional_test_driver is entered, and a command that reaches the
\* kernel is issued, only if compilation.success is true and the .ko exists.
C2_FunctionalTestOnlyIfBuilt ==
    (functional_test_entered \/ \E i \in 1..Len(cmds) :
                                    cmds[i].argv \in KernelCommands)
        => (metrics.compilation.success /\ ko_exists)

\* a run that loaded the module, and was scored
C2_Witness == pc = "done" /\ Issued("sudo insmod") # {}

\* C3 as stated: when neither bear nor make is found, the returned record
\* has compilation.success false and functionality.test_attempted false.
C3_BuildToolAbsent ==
    ( /\ pc = "done"
      /\ compilation_assessed
      /\ locals.final_make_return_code = CommandNotFound )
        => ( /\ ~metrics.compilation.success
             /\ ~metrics.functionality.test_attempted )

\* C4 as stated: compilation.success is true exactly when the build command
\* exited with 0 and the .ko exists.
C4_SuccessIffExitZeroAndKo ==
    compilation_assessed =>
        ( metrics.compilation.success <=>
            (locals.final_make_return_code = 0 /\ ko_exists) )

\* C4 amended: compilation.success is true exactly when the build command
\* exited with 0, no error line was counted in its output and the .ko
\* exists; an exit code of 0 with the .ko missing yields false.
C4_SuccessIffExitZeroNoErrorsAndKo ==
    compilation_assessed =>
        ( metrics.compilation.success <=>
            ( /\ locals.final_make_return_code = 0
              /\ metrics.compilation.errors_count = 0
              /\ ko_exists ) )

\* exit code 0 and the .ko on disk, and yet no success: the output holds an
\* error line
C4_Witness ==
    /\ compilation_assessed
    /\ locals.final_make_return_code = 0
    /\ ko_exists
    /\ metrics.compilation.errors_count > 0
    /\ ~metrics.compilation.success

\* the command just before position i is "sudo dmesg -c"
ClearedJustBefore(i) == i > 1 /\ cmds[i - 1].argv = "sudo dmesg -c"

\* C5 as stated: every insmod and every rmmod is immediately preceded by a
\* "dmesg -c".
C5_EveryLoadAndUnloadCleared ==
    \A i \in Issued("sudo insmod") \cup Issued("sudo rmmod") :
        ClearedJustBefore(i)

\* C5 amended: the insmod and the rmmod of the measured unload are each
\* immediately preceded by a "dmesg -c"; the pre-emptive rmmod follows lsmod
\* and the final cleanup rmmod follows a read of the log, neither is
\* preceded by a "dmesg -c".
C5_LoadAndMeasuredUnloadCleared ==
    /\ \A i \in Issued("sudo insmod") \cup Described("rmmod") :
         ClearedJustBefore(i)
    /\ \A i \in Described("Pre-emptive rmmod") :
         i > 1 /\ cmds[i - 1].argv = "lsmod"
    /\ \A i \in Described("Final cleanup rmmod") :
         i > 1 /\ cmds[i - 1].argv \in {"sudo dmesg", "sudo dmesg -t"}

\* a test that ran the pre-emptive rmmod, the insmod and the measured unload
C5_Witness ==
    /\ pc = "done"
    /\ Described("Pre-emptive rmmod") # {}
    /\ Described("rmmod") # {}

\* a kernel oops was detected in the log captured after the load
oops_after_load ==
    pc \in {"unload", "score", "done"} /\ Issued("sudo insmod") # {}
        /\ oops_in(results.load_dmesg)

\* C6 as stated: if a kernel oops is detected in the log captured after the
\* load, no rmmod is issued during the rest of the functional test.
C6_NoRmmodAfterOops ==
    oops_after_load =>
        \A i \in Issued("sudo insmod"), j \in Issued("sudo rmmod") : j < i

\* C6 amended: if a kernel oops is detected in the log captured after the
\* load, the measured unload (dmesg -c, rmmod, dmesg) is not run and
\* unload_success stays false; the one rmmod issued after the insmod is the
\* final cleanup rmmod, the last command of the test.
C6_NoMeasuredUnloadAfterOops ==
    oops_after_load =>
        /\ Described("rmmod") = {}
        /\ Described("Clear dmesg before unload") = {}
        /\ Described("dmesg after unload") = {}
        /\ ~results.unload_success
        /\ ~metrics.functionality.unload_success
        /\ \A i \in Issued("sudo insmod"), j \in Issued("sudo rmmod") :
             j > i => cmds[j].description = "Final cleanup rmmod"
        /\ pc \in {"score", "done"} =>
             /\ cmds[Len(cmds)].description = "Final cleanup rmmod"
             /\ Cardinality(Described("Final cleanup rmmod")) = 1

\* the load itself succeeded and only the oops keeps the unload from running
C6_Witness ==
    /\ pc = "done"
    /\ oops_after_load
    /\ results.load_success
    /\ Described("Final cleanup rmmod") # {}

\* lsmod succeeded and listed the module
lsmod_listed_module ==
    /\ "lsmod_return_code" \in DOMAIN locals
    /\ locals.lsmod_return_code = 0
    /\ driver_name_stem(drv) \in locals.lsmod_stdout

\* C7: when lsmod succeeds and lists the module, an rmmod of the module is
\* issued right after it and before the insmod, and the insmod is issued
\* afterwards whether that rmmod returned 0 or not.
C7_PreemptiveUnloadThenLoad ==
    lsmod_listed_module =>
        /\ \A i \in Issued("lsmod") :
             /\ i < Len(cmds)
             /\ cmds[i + 1] = Cmd("sudo rmmod", "Pre-emptive rmmod")
             /\ \A j \in Issued("sudo insmod") : i + 1 < j
        /\ "rmmod_return_code" \in DOMAIN locals
        /\ pc = "unload" => Issued("sudo insmod") # {}

\* the pre-emptive rmmod failed and the insmod was issued all the same
C7_Witness ==
    /\ pc = "unload"
    /\ lsmod_listed_module
    /\ locals.rmmod_return_code # 0
    /\ Issued("sudo insmod") # {}

-----------------------------------------------------------------------------
(* Properties of the scores (step 6.5), stated of SpecScore *)

\* the record has been returned with its scores
scored == pc = "done"

\* the seven sub-criteria that a penalty is subtracted from
PenalisedSubCriteria ==
    { <<"correctness", "kernel_api_usage">>,
      <<"security_safety", "memory_safety">>,
      <<"security_safety", "resource_management">>,
      <<"security_safety", "race_conditions">>,
      <<"security_safety", "input_validation">>,
      <<"code_quality", "style_compliance">>,
      <<"code_quality", "error_handling">> }

\* C8: in every returned record 0 <= overall_score <= 100 (in hundredths),
\* and each of the seven penalised sub-criteria lies in [0.0, 1.0] (in
\* thousandths), whatever the counts and tool outcomes.
C8_ScoresBounded ==
    scored =>
        /\ metrics.overall_score \in 0..10000
        /\ metrics.detailed_scores.overall_score = metrics.overall_score
        /\ \A p \in PenalisedSubCriteria :
              metrics.detailed_scores[p[1]][p[2]] \in 0..One

\* every penalised sub-criterion has run into its floor: each penalty, taken
\* alone, would have driven it below 0.0
C8_Witness ==
    /\ scored
    /\ checkpatch_ok
    /\ FindAll(MemSafetyLines, outcomes.output) * MemSafetyPenalty > One
    /\ outcomes.style.errors_count * StyleErrorPenalty > One
    /\ outcomes.warnings * CompileWarningPenalty > One
    /\ metrics.detailed_scores.security_safety.memory_safety = 0
    /\ metrics.detailed_scores.code_quality.style_compliance = 0
    /\ metrics.detailed_scores.code_quality.error_handling = 0

\* the counts above c among the sampled ones
Higher(c, samples) == { x \in samples : x > c }

\* the tool outcomes that differ from t in one count of detected issues
\* only, and have that count strictly higher
MoreIssues(t, cp_ok) ==
    { [t EXCEPT !.errors = c] : c \in Higher(t.errors, CountSamples) }
    \cup { [t EXCEPT !.warnings = c] : c \in Higher(t.warnings, CountSamples) }
    \cup ( IF cp_ok
           THEN { [t EXCEPT !.style.errors_count = c] :
                    c \in Higher(t.style.errors_count, CountSamples) }
                \cup { [t EXCEPT !.style.warnings_count = c] :
                         c \in Higher(t.style.warnings_count, CountSamples) }
           ELSE {} )
    \cup UNION { { [t EXCEPT !.output[l] = c] :
                     c \in Higher(t.output[l], CountSamples) } :
                 l \in ClangTidyLines }

\* the overall score of the evaluation of driver k with tool outcomes t
ScoreOf(k, t, cp_ok) ==
    CalculateScores(MetricsBeforeScoring(k, t), cp_ok).overall_score

\* C9: an evaluation that differs from the one made only in a strictly
\* higher count of one kind of detected issue (compile errors, compile
\* warnings, style errors, style warnings, static-analysis diagnostics of any
\* kind) has an overall_score less than or equal to the one recorded.
C9_MoreIssuesNeverScoreHigher ==
    scored =>
        \A t \in MoreIssues(outcomes, checkpatch_ok) :
            ScoreOf(drv, t, checkpatch_ok) <= metrics.overall_score

\* a driver that built and passed its test, with room for the score to fall
\* in every kind of count: more of some issues lowers the score strictly,
\* one error line takes the build's success away
C9_Witness ==
    /\ scored
    /\ checkpatch_ok
    /\ metrics.compilation.success
    /\ metrics.functionality.test_passed
    /\ outcomes.warnings = FewIssues
    /\ outcomes.style.warnings_count = FewIssues
    /\ \E t \in MoreIssues(outcomes, checkpatch_ok) :
          /\ t.style.warnings_count > outcomes.style.warnings_count
          /\ ScoreOf(drv, t, checkpatch_ok) < metrics.overall_score
    /\ \E t \in MoreIssues(outcomes, checkpatch_ok) :
          /\ t.errors > outcomes.errors
          /\ ScoreOf(drv, t, checkpatch_ok) < metrics.overall_score

\* the sum of the named sub-criteria of a category, in thousandths
SubSum(category_data, names) == SumOver(category_data, names)

\* C10: overall_score is the sum over the five categories, with weights
\* 0.40, 0.25, 0.20, 0.10 and 0.05 that sum to 1.0, of the mean of the
\* category's sub-criteria (3, 4, 4, 3 and 3 of them, the weight not among
\* them) times the weight, times 100 and rounded to 2 decimals.
C10_WeightedMeanOfCategories ==
    scored =>
        LET d == metrics.detailed_scores
            s1 == SubSum(d.correctness, {"compilation_success",
                      "functionality_pass", "kernel_api_usage"})
            s2 == SubSum(d.security_safety, {"memory_safety",
                      "resource_management", "race_conditions",
                      "input_validation"})
            s3 == SubSum(d.code_quality, {"style_compliance",
                      "error_handling", "documentation", "maintainability"})
            s4 == SubSum(d.performance, {"efficiency", "scalability",
                      "memory_usage"})
            s5 == SubSum(d.advanced_features, {"power_management",
                      "device_tree_support", "debug_support"})
        IN  /\ d.correctness.weight = 400
            /\ d.security_safety.weight = 250
            /\ d.code_quality.weight = 200
            /\ d.performance.weight = 100
            /\ d.advanced_features.weight = 50
            /\ 400 + 250 + 200 + 100 + 50 = One
            /\ metrics.overall_score =
                 RoundHalfEven(4 * 400 * s1 + 3 * 250 * s2 + 3 * 200 * s3
                                 + 4 * 100 * s4 + 4 * 50 * s5,
                               12 * 100)

\* sub-criteria of two categories strictly between their floor and 1.0
C10_Witness ==
    /\ scored
    /\ metrics.detailed_scores.correctness.kernel_api_usage
          = One - FewIssues * ApiMisusePenalty
    /\ metrics.detailed_scores.code_quality.error_handling
          = One - FewIssues * CompileWarningPenalty
    /\ metrics.detailed_scores.code_quality.style_compliance
          = One - FewIssues * StyleWarningPenalty
    /\ metrics.detailed_scores.correctness.functionality_pass = One

\* C24: every returned record has an overall_score between 17.5 and 92.5
\* inclusive (1750 and 9250 hundredths), so neither 0 nor 100; 92.5 is the
\* score only of a record with
\* compilation success, functional pass and every penalised sub-criterion
\* at 1.0.
C24_ScoreWithinModelRange ==
    scored =>
        /\ metrics.overall_score >= 1750
        /\ metrics.overall_score <= 9250
        /\ metrics.overall_score \notin {0, 10000}
        /\ metrics.overall_score = 9250 =>
             /\ metrics.compilation.success
             /\ metrics.functionality.test_passed
             /\ \A p \in PenalisedSubCriteria :
                  metrics.detailed_scores[p[1]][p[2]] = One

\* a record at 17.5: the build failed and every penalised sub-criterion is
\* at its floor
C24_Witness ==
    /\ scored
    /\ metrics.overall_score = 1750
    /\ ~metrics.compilation.success
    /\ \A p \in PenalisedSubCriteria :
         metrics.detailed_scores[p[1]][p[2]] = 0

-----------------------------------------------------------------------------
(* The flags of a returned record *)

\* C25: in every returned record test_passed implies unload_success,
\* unload_success implies load_success, and load_success implies
\* compilation.success.
C25_FlagsFormAChain ==
    pc = "done" =>
        /\ metrics.functionality.test_passed
             => metrics.functionality.unload_success
        /\ metrics.functionality.unload_success
             => metrics.functionality.load_success
        /\ metrics.functionality.load_success
             => metrics.compilation.success

\* a record in the middle of the chain: the module was built and loaded,
\* and its unload failed
C25_Witness ==
    /\ pc = "done"
    /\ metrics.compilation.success
    /\ metrics.functionality.load_success
    /\ ~metrics.functionality.unload_success
    /\ ~metrics.functionality.test_passed

-----------------------------------------------------------------------------
(* Missing tools *)

\* step 6.2 is over
style_assessed ==
    pc \notin {"make_clean", "bear", "make_fallback", "checkpatch"}

\* step 6.3 is over
static_analysis_assessed == style_assessed /\ pc # "clang_tidy"

\* run_command returned -1 for the command whose return code is kept
\* under `name`
NotFound(name) ==
    name \in DOMAIN locals /\ locals[name] = CommandNotFound

\* no flag of the functional test is set in the functionality record f
NoFlagSet(f) ==
    /\ ~f.load_success
    /\ ~f.unload_success
    /\ ~f.kernel_oops_detected
    /\ ~f.load_msg_found
    /\ ~f.unload_msg_found
    /\ ~f.test_passed

\* the record has been scored and returned
Returned == pc = "done" /\ "detailed_scores" \in DOMAIN metrics

\* the run is not stuck: before step 6.5 a next statement can be taken, and
\* at step 6.5 the score of the metrics is a number of hundredths between 0
\* and 100, so that the record can be returned
Proceeds ==
    /\ pc \notin {"score", "done"} => ENABLED Next
    /\ pc = "score" =>
         CalculateScores(metrics, checkpatch_ok).overall_score \in 0..10000
    /\ pc = "done" => Returned

C16_NoDatabaseNoClangTidy ==
    (static_analysis_assessed /\ ~ccdb_exists) =>
        /\ Issued("clang-tidy -p .") = {}
        /\ metrics.static_analysis.issues_count = 0
        /\ metrics.static_analysis.output = NoOutput
        /\ Proceeds

\* bear ran and built the module but left no compile_commands.json; the
\* functional test ran and passed and the record was returned
C16_Witness ==
    /\ Returned
    /\ ~ccdb_exists
    /\ Described("make fallback") = {}
    /\ Issued("sudo insmod") # {}
    /\ metrics.functionality.test_passed
    /\ metrics.static_analysis.issues_count = 0

-----------------------------------------------------------------------------
(* The kernel after the functional test *)

\* functional_test_driver has returned after having issued an insmod
returned_after_insmod ==
    pc \in {"score", "done"} /\ Issued("sudo insmod") # {}

\* C21: when functional_test_driver returns after having issued an insmod,
\* the module is still loaded only if an rmmod was issued after that insmod
\* and failed; the evaluator of the next driver therefore finds an earlier
\* module loaded only after a failed unload of it.
C21_LoadedOnlyAfterFailedRmmod ==
    (returned_after_insmod /\ loaded) =>
        \E i \in Issued("sudo insmod"), j \in Issued("sudo rmmod") :
            /\ i < j
            /\ j = Len(cmds) \/ cmds[j + 1].argv = "sudo dmesg"
            /\ locals.final_rmmod_return_code # 0

\* the module was loaded, the measured unload failed, and the record was
\* returned with the module still in the kernel
C21_Witness ==
    /\ pc = "done"
    /\ loaded
    /\ metrics.functionality.load_success
    /\ ~metrics.functionality.unload_success
    /\ Described("rmmod") # {}
    /\ locals.final_rmmod_return_code # 0

\* the load succeeded and no oops was found in the log captured after it
loaded_without_oops ==
    results.load_success /\ ~oops_in(results.load_dmesg)

\* C26: whenever functional_test_driver has issued an insmod, it has issued
\* an rmmod after it by the time it returns, and only one: the rmmod of the
\* measured unload when the load succeeded without oops, the final cleanup
\* rmmod when the load failed or an oops was detected.
C26_EveryInsmodFollowedByRmmod ==
    returned_after_insmod =>
        \A i \in Issued("sudo insmod") :
            LET after == { j \in Issued("sudo rmmod") : j > i }
            IN  /\ Cardinality(after) = 1
                /\ \A j \in after :
                     cmds[j].description =
                         IF loaded_without_oops
                         THEN "rmmod" ELSE "Final cleanup rmmod"

\* the insmod failed, the log was read again, and the final cleanup rmmod
\* was issued before the return
C26_Witness ==
    /\ pc = "done"
    /\ Issued("sudo insmod") # {}
    /\ ~results.load_success
    /\ Described("dmesg after failed load") # {}
    /\ cmds[Len(cmds)] = Cmd("sudo rmmod", "Final cleanup rmmod")

-----------------------------------------------------------------------------
(* Properties of the main flow, stated of SpecMain *)

\* the average of the batch has been computed
averaged == "overall_model_average_score" \in DOMAIN locals

\* a record of a driver that compiled without warnings, passed the
\* functional test with both messages found, and has no style or
\* static-analysis finding
Flawless(r) ==
    /\ r.compilation.success
    /\ r.compilation.warnings_count = 0
    /\ r.functionality.test_passed
    /\ r.functionality.load_msg_found
    /\ r.functionality.unload_msg_found
    /\ r.style.errors_count = 0
    /\ r.style.warnings_count = 0
    /\ r.static_analysis.issues_count = 0

\* five records, in the order of the registry, all flawless
FlawlessBatch ==
    /\ Len(locals.all_driver_results) = Len(SCENARIO_MAP)
    /\ \A k \in 1..Len(SCENARIO_MAP) :
         /\ locals.all_driver_results[k].filename = SCENARIO_MAP[k].filename
         /\ Flawless(locals.all_driver_results[k])

\* the score of a record whose measured sub-criteria are all 1.0
ModelMaximum ==
    overall_score([ detailed_metrics EXCEPT
                      !.correctness.compilation_success = One,
                      !.correctness.functionality_pass = One ])

\* C11 as stated: the average of a flawless batch of five is 100.
C11_FlawlessBatchAverages100 ==
    (averaged /\ FlawlessBatch) =>
        locals.overall_model_average_score = Rat(10000, 1)

\* C11 amended: the average of a flawless batch of five (no compile
\* warning either) is the model maximum, and that maximum is 92.5, not 100:
\* the sub-criteria that are not measured keep defaults below 1.0.  No batch
\* averages more.
C11_FlawlessBatchAveragesMaximum ==
    averaged =>
        /\ ModelMaximum = 9250
        /\ locals.overall_model_average_score.n
               <= ModelMaximum * locals.overall_model_average_score.d
        /\ FlawlessBatch =>
               locals.overall_model_average_score = Rat(ModelMaximum, 1)

\* the run has finished with a flawless batch
C11_Witness ==
    /\ pc = "finished"
    /\ averaged
    /\ FlawlessBatch
    /\ locals.summary_data.overall_average_score = Rat(9250, 1)

\* the run has ended, by exit() or at the end of the script
ended == pc \in {"exited", "finished"}

\* the last message given to logger.error
LastError ==
    IF locals.logged_errors = << >> THEN ""
    ELSE locals.logged_errors[Len(locals.logged_errors)]

\* every record so far carries a score and its detail
AllScored ==
    \A j \in DOMAIN locals.all_driver_results :
        /\ locals.all_driver_results[j].overall_score \in 0..10000
        /\ "detailed_scores" \in DOMAIN locals.all_driver_results[j]
        /\ locals.overall_model_scores[j]
               = locals.all_driver_results[j].overall_score

\* C13 as stated: when the parser returned between one and four blocks, the
\* mismatch is logged as an error and the run ends with a scored record for
\* each block that was parsed.
C13_MismatchStillEvaluated ==
    ( /\ ended
      /\ "parsed_drivers" \in DOMAIN locals
      /\ Len(locals.parsed_drivers) \in 1..(Len(SCENARIO_MAP) - 1) ) =>
        /\ \E j \in DOMAIN locals.logged_errors :
              locals.logged_errors[j] = "Expected to parse 5 drivers"
        /\ Len(locals.all_driver_results) = Len(locals.parsed_drivers)
        /\ AllScored

\* the run has ended with five scored records, in the order of the registry,
\* and the summary report holds them
Completed ==
    /\ pc = "finished"
    /\ Len(locals.all_driver_results) = Len(SCENARIO_MAP)
    /\ \A k \in 1..Len(SCENARIO_MAP) :
         locals.all_driver_results[k].filename = SCENARIO_MAP[k].filename
    /\ AllScored
    /\ "summary_data" \in DOMAIN locals
    /\ locals.summary_data.individual_driver_results
           = locals.all_driver_results

\* the run has exited because the template Makefile could not be used
TemplateFailed ==
    /\ pc = "exited"
    /\ LastError \in { "Error: Template Makefile not found.",
                       "Error creating Makefile" }

\* five blocks have been parsed and the loop over them starts
BatchStarts ==
    /\ pc = "prepare"
    /\ drv = 1
    /\ Len(locals.parsed_drivers) = Len(SCENARIO_MAP)

\* C14: once five blocks are parsed, and unless the template Makefile turns
\* out not to be readable, the run eventually ends with five scored records
\* and the summary report, whatever the drivers evaluated on the way did.
C14_BatchEventuallyCompletes ==
    BatchStarts ~> (Completed \/ TemplateFailed)

\* a completed run in which the first four drivers failed in four ways:
\* build, load, unload, kernel oops
C14_Witness ==
    /\ Completed
    /\ ~locals.all_driver_results[1].compilation.success
    /\ /\ locals.all_driver_results[2].compilation.success
       /\ ~locals.all_driver_results[2].functionality.load_success
    /\ /\ locals.all_driver_results[3].functionality.load_success
       /\ ~locals.all_driver_results[3].functionality.unload_success
    /\ locals.all_driver_results[4].functionality.kernel_oops_detected
    /\ locals.all_driver_results[5].functionality.test_passed

\* the error that ends a run whose input file or template is missing
MissingFileErrors ==
    { "Error: The expected AI output file not found.",
      "Error: Template Makefile not found." }

\* C17: once the input file or the template Makefile has been found missing,
\* the run has exited with code 1, no statement runs any more (no driver is
\* evaluated, no report written), every driver evaluated was evaluated
\* before the error, and there is no summary report.
C17_MissingFileIsFatal ==
    (LastError \in MissingFileErrors) =>
        /\ pc = "exited"
        /\ locals.exit_code = 1
        /\ ~ENABLED NextMain
        /\ Len(locals.all_driver_results) = drv - 1
        /\ "summary_data" \notin DOMAIN locals
        /\ "suggestions" \notin DOMAIN locals

\* the template is found missing when two drivers have been evaluated
C17_Witness ==
    /\ pc = "exited"
    /\ LastError = "Error: Template Makefile not found."
    /\ drv = 3
    /\ Len(locals.all_driver_results) = 2


\* generate_fine_tuning_suggestions has returned
suggested == "suggestions" \in DOMAIN locals

\* a flawless batch none of whose build outputs mentions the outdated
\* /proc interface
NoIssueBatch ==
    /\ FlawlessBatch
    /\ \A k \in DOMAIN locals.all_driver_results :
         ~({"proc_create", "proc_ops"}
               \subseteq locals.all_driver_results[k].compilation.output)

CheckpatchNote == "Checkpatch.pl was not found/executable"

\* C18 as stated: for a batch without any issue the list of suggestions is
\* the positive suggestion alone.
C18_NoIssueOnlyExcellent ==
    (suggested /\ NoIssueBatch) => locals.suggestions = << Excellent >>

\* C18 amended: for a batch without any issue the list of suggestions is the
\* positive suggestion alone when CHECKPATCH_SCRIPT is set; when it is not
\* set, the list is the note that checkpatch.pl was not found, followed by
\* the positive suggestion.
C18_NoIssueExcellentAfterNote ==
    (suggested /\ NoIssueBatch) =>
        locals.suggestions =
            IF locals.CHECKPATCH_SCRIPT
            THEN << Excellent >>
            ELSE << CheckpatchNote, Excellent >>

\* the report of a batch without any issue, written where checkpatch.pl was
\* not found
C18_Witness ==
    /\ pc = "finished"
    /\ NoIssueBatch
    /\ ~locals.CHECKPATCH_SCRIPT
    /\ locals.summary_data.fine_tuning_suggestions
           = << CheckpatchNote, Excellent >>

\* the overall_score of each record, in order
ScoresOf(all_results) ==
    [ k \in DOMAIN all_results |-> all_results[k].overall_score ]

\* C20: generate_fine_tuning_suggestions leaves the records, their scores
\* and the average of the batch as they were: across the call the list of
\* records, the list of scores and the average are unchanged, and the
\* average computed from the records after the call is the average computed
\* before it.
C20_SuggestionsLeaveScores ==
    [][ pc = "suggest" =>
          /\ locals'.all_driver_results = locals.all_driver_results
          /\ locals'.overall_model_scores = locals.overall_model_scores
          /\ locals'.overall_model_average_score
                 = locals.overall_model_average_score
          /\ Mean(ScoresOf(locals'.all_driver_results))
                 = locals.overall_model_average_score ]_vars

\* suggestions were made about a batch that has findings, and the report
\* carries the records with their scores
C20_Witness ==
    /\ pc = "finished"
    /\ Len(locals.summary_data.fine_tuning_suggestions) > 2
    /\ ScoresOf(locals.summary_data.individual_driver_results)
           = locals.overall_model_scores
    /\ \E k \in DOMAIN locals.overall_model_scores :
         locals.overall_model_scores[k] < ModelMaximum

\* the stage of evaluate_*_driver that issues the command
StageOf(command) ==
    CASE command.argv = "make clean" -> 1
      [] command.argv \in {"bear -- make", "make"} -> 2
      [] command.argv = "checkpatch.pl --no-tree -f" -> 3
      [] command.argv = "clang-tidy -p ." -> 4
      [] command.argv \in KernelCommands -> 5

\* the index in the registry of the driver whose directory is cwd
DriverOf(command) ==
    CHOOSE k \in 1..Len(SCENARIO_MAP) : driver_name_stem(k) = command.cwd

\* C23: execution is sequential: the commands of a driver all come before
\* those of the next driver, within one driver they come in the order make
\* clean, build, checkpatch, clang-tidy, functional test, and the record of
\* a driver is scored and appended after its commands and before any
\* command of the next driver.  The order is stated of each command and
\* the one issued next, which gives it for every pair.
C23_OneDriverOneStageAtATime ==
    /\ \A i \in 1..Len(cmds) - 1 :
         /\ DriverOf(cmds[i]) <= DriverOf(cmds[i + 1])
         /\ DriverOf(cmds[i]) = DriverOf(cmds[i + 1])
              => StageOf(cmds[i]) <= StageOf(cmds[i + 1])
    /\ \A i \in 1..Len(cmds) :
         DriverOf(cmds[i]) <= Len(locals.all_driver_results)
    /\ \A k \in 1..Len(locals.all_driver_results) :
         /\ "overall_score" \in DOMAIN locals.all_driver_results[k]
         /\ \E i \in 1..Len(cmds) :
              DriverOf(cmds[i]) = k /\ StageOf(cmds[i]) = 1

\* a finished batch in which the last two drivers went through every stage
C23_Witness ==
    /\ pc = "finished"
    /\ \A k \in {Len(SCENARIO_MAP) - 1, Len(SCENARIO_MAP)} :
         \A stage \in 1..5 :
           \E i \in 1..Len(cmds) :
             DriverOf(cmds[i]) = k /\ StageOf(cmds[i]) = stage

\* C29: in the main loop all_driver_results and overall_model_scores have
\* the same length, the k-th score is the overall_score of the k-th record,
\* every category of the registry has an evaluation function, and so no
\* record is the fallback record (score 0, errors_count 99, test not
\* attempted) of a category without one.
C29_ScoresMatchRecords ==
    /\ Len(locals.all_driver_results) = Len(locals.overall_model_scores)
    /\ \A k \in 1..Len(locals.all_driver_results) :
         LET record == locals.all_driver_results[k]
         IN  /\ locals.overall_model_scores[k] = record.overall_score
             /\ record # UnevaluatedRecord(locals.parsed_drivers[k])
             /\ record.compilation.errors_count # 99
             /\ record.functionality.test_attempted
             /\ record.overall_score > 0
    /\ \A k \in 1..Len(SCENARIO_MAP) :
         SCENARIO_MAP[k].category \in evaluation_functions

\* the loop has processed the five drivers, with different scores
C29_Witness ==
    /\ pc = "average"
    /\ Len(locals.all_driver_results) = Len(SCENARIO_MAP)
    /\ locals.overall_model_scores[1] < locals.overall_model_scores[2]
    /\ locals.overall_model_scores[5] < locals.overall_model_scores[4]
    /\ locals.all_driver_results[5].category = "generic_kernel_module"

\* the elements of a list
ElementsOf(list) == { list[k] : k \in DOMAIN list }

\* the suggestions that open the report of a detected problem
FailedCompilation == "Model frequently generates non-compiling code"
StyleFindings == "Model needs improvement in Linux kernel coding style"
StaticAnalysisIssues == "Model generates code with static analysis issues"
KernelOopses == "Critical: kernel oopses/panics detected"
FailedLoad == "Model frequently generates modules that fail to load"
FailedUnload == "Model often generates modules that fail to unload"
MissingMessages == "Model sometimes misses expected printk messages"

\* the style errors of the batch, all drivers together
total_style_errors ==
    SumSeq([ k \in DOMAIN locals.all_driver_results |->
                 locals.all_driver_results[k].style.errors_count ])

\* C30 as stated: the positive suggestion is never in one list with a
\* suggestion that reports a detected problem, be it failed compilation,
\* style errors or warnings, static-analysis issues, a kernel oops, a failed
\* load, a failed unload or missing expected messages.
C30_ExcellentExcludesEveryProblem ==
    (suggested /\ Excellent \in ElementsOf(locals.suggestions)) =>
        ElementsOf(locals.suggestions)
            \cap { FailedCompilation, StyleFindings, StaticAnalysisIssues,
                   KernelOopses, FailedLoad, FailedUnload, MissingMessages }
          = {}

\* C30 amended: the positive suggestion is never in one list with a
\* suggestion that reports failed compilation, static-analysis issues or a
\* kernel oops, and it is in one list with the style suggestion only when
\* the batch has style warnings and no style error; a failed load, a failed
\* unload and missing expected messages do not keep it out of the list.
C30_ExcellentExcludesItsOwnFour ==
    (suggested /\ Excellent \in ElementsOf(locals.suggestions)) =>
        /\ ElementsOf(locals.suggestions)
               \cap { FailedCompilation, StaticAnalysisIssues, KernelOopses }
             = {}
        /\ StyleFindings \in ElementsOf(locals.suggestions)
               => total_style_errors = 0

\* the positive suggestion at the end of a list that opens with the style
\* suggestion and reports a failed load and missing messages as well
C30_Witness ==
    /\ suggested
    /\ Excellent \in ElementsOf(locals.suggestions)
    /\ { StyleFindings, FailedLoad, MissingMessages }
           \subseteq ElementsOf(locals.suggestions)
    /\ locals.suggestions[1] = StyleFindings
    /\ total_style_errors = 0

-----------------------------------------------------------------------------
(* Properties of the parser, stated of SpecParse *)

CharCategories ==
    { "char_device_basic_rw", "char_device_ioctl_sync", "char_device_procfs" }

BlocksParsed == Len(locals.drivers_data)

\* C12: whatever lines parse_ai_output_file has processed, drivers_data is a
\* prefix of the registry: the block at index k has the filename and the
\* category of SCENARIO_MAP[k] and came from a START line and an END line
\* that both carry SCENARIO_MAP[k].tag; there are never more than five
\* blocks, so no scenario appears twice or out of its place.
C12_ParsedIsRegistryPrefix ==
    /\ BlocksParsed <= Len(SCENARIO_MAP)
    /\ Len(locals.accepted_from) = BlocksParsed
    /\ \A k \in 1..BlocksParsed :
         /\ locals.drivers_data[k].filename = SCENARIO_MAP[k].filename
         /\ locals.drivers_data[k].category = SCENARIO_MAP[k].category
         /\ locals.accepted_from[k].start = locals.accepted_from[k].end
         /\ locals.accepted_from[k].start = SCENARIO_MAP[k].tag

\* all five blocks returned from a file that also held a block out of its
\* place and lines outside every block
C12_Witness ==
    /\ pc = "returned"
    /\ BlocksParsed = Len(SCENARIO_MAP)
    /\ locals.i = MaxLines
    /\ Len(locals.logged_errors) = 1

\* C19 (as claimed): a driver whose text holds both a register_chrdev and a
\* platform_driver marker is given a character-device category.
C19_BothMarkersIsCharDevice ==
    \A k \in 1..BlocksParsed :
        CodeLines \subseteq locals.drivers_data[k].code_content
            => locals.drivers_data[k].category \in CharCategories

\* C22 (as claimed): a block whose END identifier differs from its START
\* identifier is dropped and adds nothing to the result: no block of the
\* result comes from a START that was followed by an END line with another
\* identifier.
C22_MismatchedBlockAddsNothing ==
    \A k \in 1..BlocksParsed : locals.accepted_from[k].ends_skipped = 0

\* the last line read was an END line and a block is still open
end_skipped_in_block ==
    /\ "line" \in DOMAIN locals
    /\ end_match(locals.line) # None
    /\ locals.current_tag # None

-----------------------------------------------------------------------------
(* Two files with the same tag lines, stated of SpecPair *)

\* the filenames and categories of the blocks, in order
NamesOf(drivers_data) ==
    [ k \in DOMAIN drivers_data |->
        << drivers_data[k].filename, drivers_data[k].category >> ]

\* C27: the filename and the category of every returned block depend on the
\* START and END lines only: two files with the same START and END lines
\* at the same places yield the same sequence of filenames and categories,
\* whatever their code lines.
C27_NamesDependOnTagLinesOnly ==
    NamesOf(locals.first.drivers_data) = NamesOf(locals.second.drivers_data)

\* two blocks returned from each file, the first with another text in the
\* second file than in the first
C27_Witness ==
    /\ pc = "returned"
    /\ Len(locals.first.drivers_data) = 2
    /\ locals.first.drivers_data[1].code_content = {"register_chrdev"}
    /\ locals.second.drivers_data[1].code_content = {"platform_driver"}
    /\ locals.first.drivers_data[1].category
           = locals.second.drivers_data[1].category

====
